---- MODULE Spec2Model ----
(***************************************************************************)
(* A model of the STG extraction pipeline of ClinicalAide:                 *)
(*   - RAGPipelineBuilder: the table-of-contents parser, the merge step    *)
(*     and the page -> (chapter, section) resolver                         *)
(*     (stg-ocr-parse/rag_pipeline_builder.py);                            *)
(*   - MedicalOCRExtractor: the sequential page scan and the store step    *)
(*     (stg-ocr-parse/medical_ocr_extractor.py);                           *)
(*   - EmbeddingGenerator: the batches of generate_all_embeddings          *)
(*     (stg-ocr-parse/generate_embeddings.py).                             *)
(* Text is a sequence of one-character strings, and every regular          *)
(* expression of the source is an operator over such sequences.            *)
(***************************************************************************)
EXTENDS Integers, Sequences, FiniteSets, TLC

VARIABLES
    pc,           \* position of build_complete_database: "extract", "merge", "merged"
    page_num,     \* _extract_chapters: the TOC page index of the loop range(2, 9)
    tocLines,     \* number of TOC lines read so far (bounds the input)
    chapters,     \* self.chapters: list of {number, title, start_page, sections}
    db_chapters,  \* stg_rag_complete.db: table chapters
    db_sections,  \* stg_rag_complete.db: table sections
    query,        \* _merge_ocr_with_chapters: page_num of the row being merged
    loc,          \* _merge_ocr_with_chapters: (chapter_num, section_num) resolved for it
    st_pc,            \* position of _store_medical_data: "idle", "conditions",
                      \* "treatments", "medications"
    st_conditions,    \* _store_medical_data: the conditions still to be stored
    st_treatments,    \* _store_medical_data: the treatments still to be stored
    st_medications,   \* _store_medical_data: the medications still to be stored
    lastrowid,        \* cursor.lastrowid of the call's connection (0: no insert yet)
    db_conditions,    \* stg_medical_ocr.db: table conditions
    seq_conditions,   \* sqlite_sequence of conditions: the greatest id ever drawn
    db_treatments,    \* table treatments
    db_medications,   \* table medications
    db_search_index,  \* table search_index, a row's rowid being its index
    stored,           \* every condition record stored so far, in order
    st_given,         \* every record handed to _store_medical_data so far, in the
                      \* order of its loops, with its kind
    st_done,          \* every record a loop has dealt with so far, with its kind
                      \* and whether its writes went through
    st_log,           \* the warnings logged so far
    sc_pc,              \* position of extract_medical_content: "idle", "scan",
                        \* "store", "done"
    total_pages,        \* len(doc)
    start_page,         \* extract_medical_content: argument start_page
    max_pages,          \* extract_medical_content: argument max_pages
    end_page,           \* min(start_page + max_pages, total_pages)
    scan_page_num,      \* page_num of `for page_num in range(start_page - 1, end_page)`
    current_condition,  \* the context slot: None or the most recent MedicalCondition
    conditions,         \* the conditions found so far
    treatments,         \* the treatments found so far
    medications,        \* the medications found so far
    stats,              \* self.stats
    scanned,            \* the pages read so far: page number, text, context after it
    bd_pc,                    \* position of build_complete_database after the chapters
                              \* are written: "idle", "merge_conditions",
                              \* "merge_medications", "merged", "chunk_conditions",
                              \* "chunk_medications", "chunked", "failed"
    bd_todo,                  \* the rows of cursor.fetchall() the loop has yet to take
    ocr_conditions,           \* stg_medical_complete.db: table conditions
    ocr_medications,          \* stg_medical_complete.db: table medications
    db_conditions_enhanced,   \* stg_rag_complete.db: table conditions_enhanced
    db_medications_enhanced,  \* stg_rag_complete.db: table medications_enhanced
    db_content_chunks,        \* stg_rag_complete.db: table content_chunks
    chunks_committed,         \* the number of content_chunks rows at the last commit
    chunk_runs,               \* the calls of _create_content_chunks since the tables
                              \* were created
    bd_failed,                \* None, or the table and the row of the write that raised
    bd_left,                  \* the numbers of rows each earlier run of
                              \* build_complete_database left in content_chunks and
                              \* embeddings
    em_pc,          \* generate_all_embeddings: "none" (no database yet), "idle",
                    \* "batch", "store", "complete", "stopped"
    em_runs,        \* the calls of generate_all_embeddings so far
    em_chunks,      \* generate_all_embeddings: chunks, the rows fetched
    em_i,           \* generate_all_embeddings: i of `for i in range(0, len(chunks), batch_size)`
    em_batch,       \* generate_all_embeddings: zip(chunk_ids, embeddings) still to be stored
    db_embeddings,  \* stg_rag_complete.db: table embeddings, as the connection sees it
    db_durable,     \* generate_all_embeddings: content_chunks and embeddings as of the
                    \* last commit of its connection
    fx_call         \* None, or the last call of a text helper of the extractor: the
                    \* function, its arguments and what it returned

structVars == <<pc, page_num, tocLines, chapters, db_chapters, db_sections, query, loc>>

storeVars == <<st_pc, st_conditions, st_treatments, st_medications, lastrowid,
               db_conditions, seq_conditions, db_treatments, db_medications,
               db_search_index, stored, st_given, st_done, st_log>>

scanVars == <<sc_pc, total_pages, start_page, max_pages, end_page, scan_page_num,
              current_condition, conditions, treatments, medications, stats, scanned>>

buildVars == <<bd_pc, bd_todo, ocr_conditions, ocr_medications, db_conditions_enhanced,
               db_medications_enhanced, db_content_chunks, chunks_committed,
               chunk_runs, bd_failed, bd_left>>

embedVars == <<em_pc, em_runs, em_chunks, em_i, em_batch, db_embeddings, db_durable>>

callVars == <<fx_call>>

vars == <<structVars, storeVars, scanVars, buildVars, embedVars, callVars>>

\* what the structure steps of build_complete_database leave alone
notStruct == <<storeVars, scanVars, buildVars, embedVars, callVars>>
\* what the steps of _store_medical_data leave alone
notStore == <<structVars, scanVars, buildVars, embedVars, callVars>>
\* what the steps of extract_medical_content before the store leave alone
notScan == <<structVars, storeVars, buildVars, embedVars, callVars>>
\* what the merge and chunk steps of build_complete_database leave alone
notBuild == <<storeVars, scanVars, embedVars, callVars, bd_left>>
\* what generate_all_embeddings leaves alone
notEmbed == <<structVars, storeVars, scanVars, callVars, bd_pc, bd_todo, ocr_conditions,
              ocr_medications, db_conditions_enhanced, db_medications_enhanced,
              chunks_committed, chunk_runs, bd_failed, bd_left>>

-----------------------------------------------------------------------------
(* Bounds of the model *)

\* the greatest number of TOC lines read over the TOC pages
MaxTocLines == 3
\* the greatest number of records handed to _store_medical_data, over all calls
MaxRecords == 3
\* the greatest number of pages of a document
MaxPages == 3
\* the greatest number of rows of the OCR database, over its two tables
MaxOcrRows == 2
\* the greatest number of calls of _create_content_chunks
MaxChunkRuns == 2
\* the greatest number of runs of build_complete_database after the first
MaxRebuilds == 1
\* calls of generate_all_embeddings on one database
MaxEmbedRuns == 2
\* full batches of chunks in the largest content_chunks table
MaxFullBatches == 2
\* pieces a text handed to a text helper is made of
MaxPieces == 2

-----------------------------------------------------------------------------
(* Python values *)

\* Python's None, and a present value, as sequences of length 0 and 1
None == <<>>
Some(v) == <<v>>

\* bool(x) of an Optional[str] as `if section_num:` takes it: None and "" are
\* false
Truthy(o) == o # None /\ Len(o[1]) > 0

\* bool(x) of an Optional[int] as `if row[6]` takes it: None and 0 are false
TruthyInt(o) == o # None /\ o[1] # 0

-----------------------------------------------------------------------------
(* Characters and strings *)

UpperSeq == <<"A","B","C","D","E","F","G","H","I","J","K","L","M",
              "N","O","P","Q","R","S","T","U","V","W","X","Y","Z">>
LowerSeq == <<"a","b","c","d","e","f","g","h","i","j","k","l","m",
              "n","o","p","q","r","s","t","u","v","w","x","y","z">>
DigitSeq == <<"0","1","2","3","4","5","6","7","8","9">>

UpperChars == {UpperSeq[i] : i \in 1..26}
LowerChars == {LowerSeq[i] : i \in 1..26}
AlphaChars == UpperChars \cup LowerChars
\* \d
DigitChars == {DigitSeq[i] : i \in 1..10}
\* \s
SpaceChars == {" ", "\t", "\n", "\r"}

\* the index just after the longest run of characters of cls that starts at i
\* (a greedy cls* from i)
RunEnd(s, i, cls) ==
    CHOOSE j \in i..(Len(s) + 1) :
        /\ \A k \in i..(j - 1) : s[k] \in cls
        /\ (j = Len(s) + 1 \/ s[j] \notin cls)

\* the literal lit occurs in s at index i
At(s, i, lit) ==
    /\ i >= 1
    /\ i + Len(lit) - 1 <= Len(s)
    /\ \A k \in 1..Len(lit) : s[i + k - 1] = lit[k]

\* the least and the greatest element of a non-empty set of numbers
Least(S) == CHOOSE x \in S : \A y \in S : x <= y
Greatest(S) == CHOOSE x \in S : \A y \in S : y <= x

\* str.strip()
strip(s) ==
    LET cut(keep) == IF keep = {} THEN <<>> ELSE SubSeq(s, Least(keep), Greatest(keep))
    IN  cut({i \in 1..Len(s) : s[i] \notin SpaceChars})

\* int(s) of a string of decimal digits
RECURSIVE int(_)
int(s) ==
    IF s = <<>> THEN 0
    ELSE LET d == CHOOSE i \in 1..10 : DigitSeq[i] = s[Len(s)]
         IN  10 * int(SubSeq(s, 1, Len(s) - 1)) + (d - 1)

\* str.split('\n')
RECURSIVE split(_)
split(text) ==
    IF \A i \in 1..Len(text) : text[i] # "\n" THEN <<text>>
    ELSE LET nl == CHOOSE i \in 1..Len(text) :
                       text[i] = "\n" /\ \A j \in 1..(i - 1) : text[j] # "\n"
         IN  <<SubSeq(text, 1, nl - 1)>> \o split(SubSeq(text, nl + 1, Len(text)))

-----------------------------------------------------------------------------
(* RAGPipelineBuilder._extract_chapters: the two line patterns *)

\* the section-number threshold of `int(section_match.group(1)) > 100`
SectionThreshold == 100
\* the TOC pages of `for page_num in range(2, 9)`
TocFirstPage == 2
TocEndPage == 9

\* r'\.+\s*(\d+)' matches s at index e: the dot leader, and the page after it
LeaderAt(s, e) ==
    /\ e <= Len(s)
    /\ s[e] = "."
    /\ LET g == RunEnd(s, RunEnd(s, e, {"."}), SpaceChars)
       IN  g <= Len(s) /\ s[g] \in DigitChars

\* the (\d+) that the leader at e ends with
LeaderPage(s, e) ==
    LET g == RunEnd(s, RunEnd(s, e, {"."}), SpaceChars)
    IN  SubSeq(s, g, RunEnd(s, g, DigitChars) - 1)

\* re.match(r'Chapter\s+(\d+)\.\s+(.+?)\.+\s*(\d+)', line): None, or the three
\* groups. \s+ before the title is greedy (the latest start d that lets the rest
\* match), the title (.+?) is lazy (the earliest end e), and . excludes a newline.
chapter_match(line) ==
    IF ~At(line, 1, <<"C","h","a","p","t","e","r">>) THEN None
    ELSE
    LET b == RunEnd(line, 8, SpaceChars)
        c == RunEnd(line, b, DigitChars)
    IN  IF ~(b > 8 /\ c > b /\ c <= Len(line) /\ line[c] = ".") THEN None
        ELSE
        LET dmax == RunEnd(line, c + 1, SpaceChars)
            Ends(d) == {e \in (d + 1)..Len(line) :
                           /\ \A k \in d..(e - 1) : line[k] # "\n"
                           /\ LeaderAt(line, e)}
            starts == {d \in (c + 2)..dmax : Ends(d) # {}}
        IN  IF starts = {} THEN None
            ELSE
            LET d == CHOOSE x \in starts : \A y \in starts : y <= x
                e == CHOOSE x \in Ends(d) : \A y \in Ends(d) : x <= y
            IN  Some([g1 |-> SubSeq(line, b, c - 1),
                      g2 |-> SubSeq(line, d, e - 1),
                      g3 |-> LeaderPage(line, e)])

\* re.match(r'(\d{1,3})\.\s+([^.]+?)\.+\s*(\d+)', line): None, or the three
\* groups. The title [^.]+? cannot cross a dot, so it ends at the first dot after
\* the number's; \s+ gives one character back when nothing else is left for it.
section_match(line) ==
    LET c == RunEnd(line, 1, DigitChars)
    IN  IF ~(c >= 2 /\ c <= 4 /\ c <= Len(line) /\ line[c] = ".") THEN None
        ELSE
        LET dmax == RunEnd(line, c + 1, SpaceChars)
            dots == {e \in (c + 1)..Len(line) : line[e] = "."}
        IN  IF dots = {} THEN None
            ELSE
            LET e == CHOOSE x \in dots : \A y \in dots : x <= y
                d == IF e > dmax THEN dmax ELSE dmax - 1
            IN  IF d >= c + 2 /\ LeaderAt(line, e)
                THEN Some([g1 |-> SubSeq(line, 1, c - 1),
                           g2 |-> SubSeq(line, d, e - 1),
                           g3 |-> LeaderPage(line, e)])
                ELSE None

\* an assignment loop without the `break` condition met at the first chapter:
\* the section goes to the last chapter that starts on or before its page
assign_section_last(chs, section) ==
    LET fits == {i \in 1..Len(chs) : chs[i].start_page <= section.page}
    IN  IF fits = {} THEN chs
        ELSE LET i == CHOOSE x \in fits : \A y \in fits : x >= y
             IN  [chs EXCEPT ![i].sections = Append(@, section)]

\* `for chapter in self.chapters: if chapter['start_page'] <= section['page']:
\*  chapter['sections'].append(section); break`
assign_section(chs, section) ==
    LET fits == {i \in 1..Len(chs) : chs[i].start_page <= section.page}
    IN  IF fits = {} THEN chs
        ELSE LET i == CHOOSE x \in fits : \A y \in fits : x <= y
             IN  [chs EXCEPT ![i].sections = Append(@, section)]

\* the chapter pattern's branch of the loop body
extract_chapter(chs, line) ==
    LET m == chapter_match(line)
    IN  IF m # None
        THEN Append(chs, [number     |-> int(m[1].g1),
                          title      |-> strip(m[1].g2),
                          start_page |-> int(m[1].g3),
                          sections   |-> <<>>])
        ELSE chs

\* a section branch that takes every numbered line, whatever its number
extract_section_any(chs, line) ==
    LET m == section_match(line)
    IN  IF m # None
        THEN assign_section(chs, [number |-> m[1].g1,
                                  title  |-> strip(m[1].g2),
                                  page   |-> int(m[1].g3)])
        ELSE chs

\* the section pattern's branch of the loop body
extract_section(chs, line) ==
    LET m == section_match(line)
    IN  IF m # None /\ int(m[1].g1) > SectionThreshold
        THEN assign_section(chs, [number |-> m[1].g1,
                                  title  |-> strip(m[1].g2),
                                  page   |-> int(m[1].g3)])
        ELSE chs

\* the body of `for line in lines`: both patterns are tried on every line
extract_line(chs, line) == extract_section(extract_chapter(chs, line), line)

-----------------------------------------------------------------------------
(* RAGPipelineBuilder._find_chapter_section *)

\* a resolver that starts from chapter 0 instead of None
no_chapter_zero == Some(0)

\* `chapter_num = None` and `section_num = None` before the loop
no_chapter == None
no_section == None

\* a resolver that excludes the chapter's first page
chapter_covers_strict(chapter, page_number) == page_number > chapter.start_page

\* `if page_number >= chapter['start_page']`
chapter_covers(chapter, page_number) == page_number >= chapter.start_page

\* `if page_number >= section['page']`
section_covers(section, page_number) == page_number >= section.page

\* `for section in chapter.get('sections', [])`: section_num is overwritten by
\* every section that covers the page and is kept otherwise
RECURSIVE find_section(_, _, _)
find_section(sections, page_number, section_num) ==
    IF sections = <<>> THEN section_num
    ELSE find_section(Tail(sections), page_number,
                      IF section_covers(Head(sections), page_number)
                      THEN Some(Head(sections).number)
                      ELSE section_num)

\* `for chapter in self.chapters`: both results are carried from one chapter to
\* the next; neither is reset when a later chapter covers the page
RECURSIVE find_chapter(_, _, _, _)
find_chapter(chs, page_number, chapter_num, section_num) ==
    IF chs = <<>> THEN [chapter_num |-> chapter_num, section_num |-> section_num]
    ELSE IF chapter_covers(Head(chs), page_number)
         THEN find_chapter(Tail(chs), page_number, Some(Head(chs).number),
                           find_section(Head(chs).sections, page_number, section_num))
         ELSE find_chapter(Tail(chs), page_number, chapter_num, section_num)

_find_chapter_section(chs, page_number) ==
    find_chapter(chs, page_number, no_chapter, no_section)

-----------------------------------------------------------------------------
(* The TOC lines and the merged rows' pages the model reads *)

\* str(n) of a natural number
RECURSIVE Str(_)
Str(n) ==
    IF n < 10 THEN <<DigitSeq[n + 1]>>
    ELSE Str(n \div 10) \o <<DigitSeq[(n % 10) + 1]>>

\* "Chapter <n>. <title>.......... <p>"
ChapterLine(n, title, p) ==
    <<"C","h","a","p","t","e","r"," ">> \o Str(n) \o <<".", " ">> \o title
        \o <<".", ".", ".", ".", " ">> \o Str(p)

\* "<n>. <title>..........<p>"
SectionLine(n, title, p) ==
    Str(n) \o <<".", " ">> \o title \o <<".", ".", ".", ".">> \o Str(p)

\* "Malaria Control", "Fever"
ChapterTitle(n) ==
    IF n = 1 THEN <<"F","e","v","e","r">>
    ELSE <<"M","a","l","a","r","i","a"," ","C","o","n","t","r","o","l">>

ChapterNumbers == {1, 2}
StartPages == {10, 20}
\* 100 is at the threshold, 186 above it
SectionNumbers == {100, 186}
SectionPages == {12, 22}

TocLines ==
    {ChapterLine(n, ChapterTitle(n), p) : n \in ChapterNumbers, p \in StartPages}
    \cup {SectionLine(n, <<"S","e","v","e","r","e"," ","M","a","l","a","r","i","a">>, p) :
             n \in SectionNumbers, p \in SectionPages}
    \cup {<<"C","o","n","t","e","n","t","s">>}

\* page_number of a row of the OCR database (0 stands for a missing page)
RowPages == {0, 9, 10, 12, 19, 20, 22}

-----------------------------------------------------------------------------
(* RAGPipelineBuilder.build_complete_database: the structure steps *)

StructInit ==
    /\ pc = "extract"
    /\ page_num = TocFirstPage
    /\ tocLines = 0
    /\ chapters = <<>>
    /\ db_chapters = <<>>
    /\ db_sections = <<>>
    /\ query = None
    /\ loc = None

\* _extract_chapters: one turn of `for line in lines` on the current TOC page
ExtractLine(line) ==
    /\ pc = "extract"
    /\ page_num < TocEndPage
    /\ tocLines < MaxTocLines
    /\ tocLines' = tocLines + 1
    /\ chapters' = extract_line(chapters, line)
    /\ UNCHANGED <<pc, page_num, db_chapters, db_sections, query, loc>>
    /\ UNCHANGED notStruct

\* _extract_chapters: the next turn of `for page_num in range(2, 9)`; after the
\* last page the document is closed and _merge_ocr_with_chapters is next
NextTocPage ==
    /\ pc = "extract"
    /\ page_num < TocEndPage
    /\ page_num' = page_num + 1
    /\ pc' = IF page_num + 1 = TocEndPage THEN "merge" ELSE "extract"
    /\ UNCHANGED <<tocLines, chapters, db_chapters, db_sections, query, loc>>
    /\ UNCHANGED notStruct

\* the rows `INSERT INTO sections` writes for the chapters from index i on
RECURSIVE section_rows(_, _)
section_rows(chs, i) ==
    IF i > Len(chs) THEN <<>>
    ELSE [k \in 1..Len(chs[i].sections) |->
             [chapter_number |-> chs[i].number,
              section_number |-> chs[i].sections[k].number,
              title          |-> chs[i].sections[k].title,
              page_number    |-> chs[i].sections[k].page]]
         \o section_rows(chs, i + 1)

\* a script of `CREATE TABLE IF NOT EXISTS t`: a table that is there stays as
\* it is
create_if_not_exists(table) == table

\* `DROP TABLE IF EXISTS t; CREATE TABLE t (...)`: the table is empty, and the
\* ids of an AUTOINCREMENT column start again
drop_and_create(table) == <<>>

\* _merge_ocr_with_chapters up to the first SELECT: executescript drops and
\* creates the six tables (it commits as it goes), then every chapter and
\* every section of self.chapters is inserted
MergeChapters ==
    /\ pc = "merge"
    /\ db_conditions_enhanced' = drop_and_create(db_conditions_enhanced)
    /\ db_medications_enhanced' = drop_and_create(db_medications_enhanced)
    /\ db_content_chunks' = drop_and_create(db_content_chunks)
    /\ db_embeddings' = drop_and_create(db_embeddings)
    /\ chunks_committed' = Len(db_content_chunks')
    /\ chunk_runs' = 0
    /\ db_chapters' = [i \in 1..Len(chapters) |->
                          [id         |-> i,
                           number     |-> chapters[i].number,
                           title      |-> chapters[i].title,
                           start_page |-> chapters[i].start_page]]
    /\ db_sections' = LET rows == section_rows(chapters, 1)
                      IN  [i \in 1..Len(rows) |->
                              [id |-> i] @@ rows[i]]
    /\ pc' = "merged"
    /\ UNCHANGED <<page_num, tocLines, chapters, query, loc>>
    /\ UNCHANGED <<storeVars, scanVars, callVars, bd_pc, bd_todo, ocr_conditions,
                   ocr_medications, bd_failed, bd_left, em_pc, em_runs, em_chunks, em_i,
                   em_batch, db_durable>>

\* _merge_ocr_with_chapters: one row of the OCR database is located
MergeRow(p) ==
    /\ pc = "merged"
    /\ query' = Some(p)
    /\ loc' = Some(_find_chapter_section(chapters, p))
    /\ UNCHANGED <<pc, page_num, tocLines, chapters, db_chapters, db_sections>>
    /\ UNCHANGED notStruct

StructNext ==
    \/ \E line \in TocLines : ExtractLine(line)
    \/ NextTocPage
    \/ MergeChapters
    \/ \E p \in RowPages : MergeRow(p)

-----------------------------------------------------------------------------
(* MedicalOCRExtractor: text helpers *)

\* str.lower() of a character and of a string
ToLower(c) ==
    IF c \in UpperChars THEN LowerSeq[CHOOSE i \in 1..26 : UpperSeq[i] = c] ELSE c

lower(s) == [i \in 1..Len(s) |-> ToLower(s[i])]

\* the literal lit occurs in s at index i under re.IGNORECASE
AtCI(s, i, lit) ==
    /\ i >= 1
    /\ i + Len(lit) - 1 <= Len(s)
    /\ \A k \in 1..Len(lit) : ToLower(s[i + k - 1]) = ToLower(lit[k])

\* `lit in s`, and re.search of a literal
Contains(s, lit) == \E i \in 1..(Len(s) - Len(lit) + 1) : At(s, i, lit)

\* the index just after the longest run of characters outside cls from i
\* (a greedy [^cls]* from i)
RunEndNot(s, i, cls) ==
    CHOOSE j \in i..(Len(s) + 1) :
        /\ \A k \in i..(j - 1) : s[k] \notin cls
        /\ (j = Len(s) + 1 \/ s[j] \in cls)

\* the s[i] exists and is in cls
Is(s, i, cls) == i >= 1 /\ i <= Len(s) /\ s[i] \in cls

\* the least element of a set of numbers, and 0 for the empty set
Least0(S) == IF S = {} THEN 0 ELSE Least(S)

\* the first of words that occurs in s at index i: its number, 0 if none does
first_at(s, i, words) == Least0({k \in 1..Len(words) : At(s, i, words[k])})

\* \w
WordChars == AlphaChars \cup DigitChars \cup {"_"}
\* [:\s]
SepChars == {":"} \cup SpaceChars
\* a capture class that reads to the end of the line, dots included
stop_at_newline == {"\n"}
\* the complement of [^.\n]
StopChars == {".", "\n"}

\* re.sub(r'\s+', ' ', s): every run of whitespace becomes one blank
normalize(s) ==
    LET blank(kept) == [j \in 1..Len(kept) |->
                           IF s[kept[j]] \in SpaceChars THEN " " ELSE s[kept[j]]]
    IN  blank(SelectSeq([i \in 1..Len(s) |-> i],
                        LAMBDA i : s[i] \notin SpaceChars
                                   \/ i = 1 \/ s[i - 1] \notin SpaceChars))

\* a text handed on without a cut
untruncated(s, n) == s

\* s[:n] if len(s) > n else s
truncate(s, n) == IF Len(s) > n THEN SubSeq(s, 1, n) ELSE s

\* len(s.split()): the number of whitespace-separated words
word_count(s) ==
    Cardinality({i \in 1..Len(s) :
                    s[i] \notin SpaceChars /\ (i = 1 \/ s[i - 1] \in SpaceChars)})

\* d.get(key, default) of a dict
get(d, key, default) == IF key \in DOMAIN d THEN d[key] ELSE default

\* \d+(?:\.\d+)? from index i: the index after it, 0 when it does not match
number_end(s, i) ==
    LET fraction(d1) == IF d1 = i THEN 0
                        ELSE IF Is(s, d1, {"."}) /\ Is(s, d1 + 1, DigitChars)
                             THEN RunEnd(s, d1 + 1, DigitChars)
                             ELSE d1
    IN  fraction(RunEnd(s, i, DigitChars))

-----------------------------------------------------------------------------
(* MedicalOCRExtractor.treatment_patterns and _extract_treatments_from_page *)

\* self.treatment_patterns, as written in the source
treatment_patterns ==
    << <<"F","i","r","s","t","[","-"," ","]","l","i","n","e","[",":","\\","s","]","+","(","[","^",".","\\","n","]","+",")">>,
       <<"S","e","c","o","n","d","[","-"," ","]","l","i","n","e","[",":","\\","s","]","+","(","[","^",".","\\","n","]","+",")">>,
       <<"A","l","t","e","r","n","a","t","i","v","e","[",":","\\","s","]","+","(","[","^",".","\\","n","]","+",")">>,
       <<"D","r","u","g","[",":","\\","s","]","+","(","[","A","-","Z","]","[","a","-","z","]","+","(","?",":","\\","s","+","\\","d","+","\\","s","*","m","g",")","?",")">>,
       <<"D","o","s","e","[",":","\\","s","]","+","(","[","^",".","\\","n","]","+",")">>,
       <<"D","u","r","a","t","i","o","n","[",":","\\","s","]","+","(","[","^",".","\\","n","]","+",")">> >>

\* the marker each pattern starts with: a word, and for the first two the
\* `[- ]line` that follows it
treatment_markers ==
    << [word |-> <<"F","i","r","s","t">>, line |-> TRUE],
       [word |-> <<"S","e","c","o","n","d">>, line |-> TRUE],
       [word |-> <<"A","l","t","e","r","n","a","t","i","v","e">>, line |-> FALSE],
       [word |-> <<"D","r","u","g">>, line |-> FALSE],
       [word |-> <<"D","o","s","e">>, line |-> FALSE],
       [word |-> <<"D","u","r","a","t","i","o","n">>, line |-> FALSE] >>

\* the marker of pattern k matches text at index i (re.IGNORECASE): the index
\* after it, 0 when it does not match
marker_end(text, i, k) ==
    LET after(m, h) ==
            IF ~AtCI(text, i, m.word) THEN 0
            ELSE IF ~m.line THEN h
            ELSE IF Is(text, h, {"-", " "}) /\ AtCI(text, h + 1, <<"l","i","n","e">>) THEN h + 5
            ELSE 0
    IN  after(treatment_markers[k], i + Len(treatment_markers[k].word))

\* `[:\s]+([^.\n]+)` from index a: the greedy separators give back characters
\* until one character of the capture class is left to start the group
text_capture(text, a) ==
    LET group(j, e) == Some([group |-> SubSeq(text, j, e - 1), end |-> e])
        from(starts) == IF starts = {} THEN None
                        ELSE group(Greatest(starts),
                                   RunEndNot(text, Greatest(starts), StopChars))
    IN  from({j \in (a + 1)..RunEnd(text, a, SepChars) :
                 j <= Len(text) /\ text[j] \notin StopChars})

\* `[:\s]+([A-Z][a-z]+(?:\s+\d+\s*mg)?)` from index a under re.IGNORECASE
drug_capture(text, a) ==
    LET group(j, e) == Some([group |-> SubSeq(text, j, e - 1), end |-> e])
        dose(e1, w, d, w2) ==
            IF w > e1 /\ d > w /\ AtCI(text, w2, <<"m","g">>) THEN w2 + 2 ELSE e1
        digits(e1, w, d) == dose(e1, w, d, RunEnd(text, d, SpaceChars))
        blanks(e1, w) == digits(e1, w, RunEnd(text, w, DigitChars))
        name(e1) == blanks(e1, RunEnd(text, e1, SpaceChars))
        from(j) == IF j = a \/ ~Is(text, j, AlphaChars) \/ ~Is(text, j + 1, AlphaChars)
                   THEN None
                   ELSE group(j, name(RunEnd(text, j + 1, AlphaChars)))
    IN  from(RunEnd(text, a, SepChars))

\* treatment pattern k matched at index i of text: None, or the group and the
\* index after the match
treatment_match(text, i, k) ==
    LET capture(a) == IF a = 0 THEN None
                      ELSE IF k = 4 THEN drug_capture(text, a)
                      ELSE text_capture(text, a)
    IN  capture(marker_end(text, i, k))

\* re.finditer(pattern, text, re.IGNORECASE) from index pos: group(1) of the
\* non-overlapping matches, left to right
RECURSIVE treatment_finditer(_, _, _)
treatment_finditer(text, k, pos) ==
    LET rest(m) == <<m[1].group>> \o treatment_finditer(text, k, m[1].end)
        from(starts) == IF starts = {} THEN <<>>
                        ELSE rest(treatment_match(text, Least(starts), k))
    IN  from({i \in pos..Len(text) : treatment_match(text, i, k) # None})

\* MedicalTreatment(condition_name=..., page_number=...)
MedicalTreatment(condition_name, page_number) ==
    [condition_name |-> condition_name,
     first_line     |-> <<>>,
     second_line    |-> <<>>,
     dosage         |-> <<>>,
     duration       |-> <<>>,
     page_number    |-> page_number]

\* a classification that puts every text in first_line
first_line_always(pattern) == "first_line"

\* the field a pattern's text goes to: the substring tests on pattern.lower()
treatment_field(pattern) ==
    LET pattern_lower == lower(pattern)
    IN  IF Contains(pattern_lower, <<"f","i","r","s","t">>) THEN "first_line"
        ELSE IF Contains(pattern_lower, <<"s","e","c","o","n","d">>)
                \/ Contains(pattern_lower, <<"a","l","t","e","r","n","a","t","i","v","e">>) THEN "second_line"
        ELSE IF Contains(pattern_lower, <<"d","o","s","e">>) THEN "dosage"
        ELSE IF Contains(pattern_lower, <<"d","u","r","a","t","i","o","n">>) THEN "duration"
        ELSE "first_line"

\* the least length a stripped group must exceed: `len(treatment_text) > 5`
MinTreatmentLen == 5

\* the records one pattern gives on a page
pattern_treatments(text, k, condition_name, page_number) ==
    LET records(kept) ==
            [i \in 1..Len(kept) |->
                [MedicalTreatment(condition_name, page_number)
                    EXCEPT ![treatment_field(treatment_patterns[k])] = kept[i]]]
        stripped(groups) == [i \in 1..Len(groups) |-> strip(groups[i])]
    IN  records(SelectSeq(stripped(treatment_finditer(text, k, 1)),
                          LAMBDA t : Len(t) > MinTreatmentLen))

RECURSIVE treatments_from(_, _, _, _)
treatments_from(text, k, condition_name, page_number) ==
    IF k > Len(treatment_patterns) THEN <<>>
    ELSE pattern_treatments(text, k, condition_name, page_number)
             \o treatments_from(text, k + 1, condition_name, page_number)

_extract_treatments_from_page(text, condition_name, page_number) ==
    treatments_from(text, 1, condition_name, page_number)

-----------------------------------------------------------------------------
(* MedicalOCRExtractor.condition_patterns and _extract_conditions_from_page *)

\* the shortest and the longest line looked at: `len(line) < 5 or len(line) > 100`
MinLineLen == 5
MaxLineLen == 100
\* `len(name) < 5 or len(name) > 60`
MinNameLen == 5
MaxNameLen == 60
\* `len(name.split()) <= 4`
MaxNameWords == 4
\* `features[:500]` and `content[:300]`
MaxFeaturesLen == 500
MaxContentLen == 300

\* r'\d{4}' matches s at index i
FourDigitsAt(s, i) == \A k \in 0..3 : Is(s, i + k, DigitChars)

\* any(re.search(pattern, line) for pattern in self.skip_patterns)
skip_line(line) ==
    \/ Contains(line, <<"D","e","p","a","r","t","m","e","n","t"," ","o","f">>)
    \/ Contains(line, <<"M","i","n","i","s","t","r","y"," ","o","f">>)
    \/ Contains(line, <<"U","n","i","v","e","r","s","i","t","y"," ","o","f">>)
    \/ Contains(line, <<"W","o","r","l","d"," ","H","e","a","l","t","h">>)
    \/ Contains(line, <<"G","h","a","n","a"," ","N","a","t","i","o","n","a","l">>)
    \/ Contains(line, <<"T","a","b","l","e"," ","o","f"," ","C","o","n","t","e","n","t","s">>)
    \/ \E i \in 1..Len(line) : At(line, i, <<"C","h","a","p","t","e","r"," ">>) /\ Is(line, i + 8, DigitChars)
    \/ \E i \in 1..Len(line) : At(line, i, <<"P","a","g","e"," ">>) /\ Is(line, i + 5, DigitChars)
    \/ \E i \in 1..Len(line) : FourDigitsAt(line, i)

\* `[A-Z]\d{2}(?:\.\d+)?\)` from index cs: the index of the closing bracket,
\* 0 when it does not match
icd_code_end(line, cs) ==
    LET closing(ce) == IF /\ Is(line, cs, UpperChars)
                          /\ Is(line, cs + 1, DigitChars)
                          /\ Is(line, cs + 2, DigitChars)
                          /\ Is(line, ce, {")"})
                       THEN ce ELSE 0
    IN  closing(IF Is(line, cs + 3, {"."}) /\ Is(line, cs + 4, DigitChars)
                THEN RunEnd(line, cs + 4, DigitChars)
                ELSE cs + 3)

\* `\s*\((?:ICD[:\s-]*)?([A-Z]\d{2}(?:\.\d+)?)\)` from index n: None, or the
\* ICD code
icd_suffix(line, n) ==
    LET code(cs, ce) == IF ce # 0 THEN Some(SubSeq(line, cs, ce - 1)) ELSE None
        start(cs) == code(cs, icd_code_end(line, cs))
        bracket(p) == IF ~Is(line, p, {"("}) THEN None
                      ELSE start(IF At(line, p + 1, <<"I","C","D">>)
                                 THEN RunEnd(line, p + 4, SepChars \cup {"-"})
                                 ELSE p + 1)
    IN  bracket(RunEnd(line, n, SpaceChars))

\* r'^([A-Z][a-zA-Z\s\-]+?)\s*\((?:ICD[:\s-]*)?([A-Z]\d{2}(?:\.\d+)?)\)':
\* the lazy name is the shortest one after which the bracketed code follows
icd_pattern(line) ==
    LET name(n) == Some([name |-> SubSeq(line, 1, n - 1), icd_code |-> icd_suffix(line, n)])
        from(ends) == IF ~Is(line, 1, UpperChars) \/ ends = {} THEN None
                      ELSE name(Least(ends))
    IN  from({n \in 3..RunEnd(line, 2, AlphaChars \cup SpaceChars \cup {"-"}) :
                 icd_suffix(line, n) # None})

\* (?:Acute|Chronic|Severe|Mild|Primary|Secondary)
severity_words ==
    << <<"A","c","u","t","e">>, <<"C","h","r","o","n","i","c">>, <<"S","e","v","e","r","e">>, <<"M","i","l","d">>, <<"P","r","i","m","a","r","y">>, <<"S","e","c","o","n","d","a","r","y">> >>

\* r'^((?:Acute|Chronic|Severe|Mild|Primary|Secondary)\s+[A-Za-z\s]+)$'
severity_pattern(line) ==
    LET head(word, q) == /\ At(line, 1, word)
                         /\ Is(line, q, SpaceChars)
                         /\ Len(line) >= q + 1
                         /\ RunEnd(line, q, AlphaChars \cup SpaceChars) = Len(line) + 1
    IN  IF \E k \in 1..Len(severity_words) :
               head(severity_words[k], 1 + Len(severity_words[k]))
        THEN Some([name |-> line, icd_code |-> None])
        ELSE None

\* (?:itis|osis|emia|pathy|trophy|plasia|oma)
disease_suffixes ==
    << <<"i","t","i","s">>, <<"o","s","i","s">>, <<"e","m","i","a">>, <<"p","a","t","h","y">>, <<"t","r","o","p","h","y">>, <<"p","l","a","s","i","a">>, <<"o","m","a">> >>

\* r'^([A-Z][a-z]+(?:itis|osis|emia|pathy|trophy|plasia|oma))\s*': the greedy
\* [a-z]+ gives back letters until a suffix follows, so the last suffix of the
\* lower-case run that has a letter before it ends the name
suffix_pattern(line) ==
    LET suffix_at(e) == {k \in 1..Len(disease_suffixes) : At(line, e, disease_suffixes[k])}
        name(e, k) == Some([name     |-> SubSeq(line, 1, e + Len(disease_suffixes[k]) - 1),
                            icd_code |-> None])
        from(ends) == IF ~Is(line, 1, UpperChars) \/ ends = {} THEN None
                      ELSE name(Greatest(ends), Least(suffix_at(Greatest(ends))))
    IN  from({e \in 3..RunEnd(line, 2, LowerChars) : suffix_at(e) # {}})

\* (?:infection|disease|syndrome|disorder)
infection_words == << <<"i","n","f","e","c","t","i","o","n">>, <<"d","i","s","e","a","s","e">>, <<"s","y","n","d","r","o","m","e">>, <<"d","i","s","o","r","d","e","r">> >>
\* (?:pain|fever|cough|diarr?hoea)
symptom_words == << <<"p","a","i","n">>, <<"f","e","v","e","r">>, <<"c","o","u","g","h">>, <<"d","i","a","r","r","h","o","e","a">>, <<"d","i","a","r","h","o","e","a">> >>

\* r'^([A-Z][a-z]+\s+(?:w1|w2|...))\s*' for a list of words
two_word_pattern(line, words) ==
    LET name(w, k) == IF k = 0 THEN None
                      ELSE Some([name     |-> SubSeq(line, 1, w + Len(words[k]) - 1),
                                 icd_code |-> None])
        word(r, w) == IF r = 2 \/ w = r THEN None ELSE name(w, first_at(line, w, words))
        run(r) == word(r, RunEnd(line, r, SpaceChars))
    IN  IF ~Is(line, 1, UpperChars) THEN None ELSE run(RunEnd(line, 2, LowerChars))

\* re.search(self.condition_patterns[k], line): None, or group(1) and, for the
\* one pattern with a second group, group(2)
condition_match(line, k) ==
    IF line = <<>> THEN None
    ELSE CASE k = 1 -> icd_pattern(line)
           [] k = 2 -> severity_pattern(line)
           [] k = 3 -> suffix_pattern(line)
           [] k = 4 -> two_word_pattern(line, infection_words)
           [] k = 5 -> two_word_pattern(line, symptom_words)

\* the number of self.condition_patterns
ConditionPatterns == 5

\* r'\b\d{4}\b' is found in name
has_year(name) ==
    \E i \in 1..Len(name) :
        /\ FourDigitsAt(name, i)
        /\ ~Is(name, i - 1, WordChars)
        /\ ~Is(name, i + 4, WordChars)

\* medical_indicators of _is_valid_medical_condition
medical_indicators ==
    << <<"i","n","f","e","c","t","i","o","n">>, <<"d","i","s","e","a","s","e">>, <<"s","y","n","d","r","o","m","e">>, <<"d","i","s","o","r","d","e","r">>, <<"p","a","i","n">>, <<"f","e","v","e","r">>,
       <<"i","t","i","s">>, <<"o","s","i","s">>, <<"e","m","i","a">>, <<"p","a","t","h","y">>, <<"t","r","o","p","h","y">>, <<"p","l","a","s","i","a">>, <<"o","m","a">>,
       <<"a","c","u","t","e">>, <<"c","h","r","o","n","i","c">>, <<"s","e","v","e","r","e">>, <<"m","i","l","d">>, <<"p","r","i","m","a","r","y">>, <<"s","e","c","o","n","d","a","r","y">>,
       <<"m","a","l","a","r","i","a">>, <<"p","n","e","u","m","o","n","i","a">>, <<"d","i","a","r","r","h","e","a">>, <<"h","y","p","e","r","t","e","n","s","i","o","n">>, <<"d","i","a","b","e","t","e","s">> >>

\* the organisational words of _is_valid_medical_condition
organisation_words ==
    << <<"D","e","p","a","r","t","m","e","n","t">>, <<"M","i","n","i","s","t","r","y">>, <<"U","n","i","v","e","r","s","i","t","y">>, <<"G","h","a","n","a">>, <<"W","H","O">> >>

\* a validation that lets every name through
any_name(name) == TRUE

_is_valid_medical_condition(name) ==
    IF Len(name) < MinNameLen \/ Len(name) > MaxNameLen THEN FALSE
    ELSE IF \E k \in 1..Len(organisation_words) : Contains(name, organisation_words[k])
         THEN FALSE
    ELSE IF Is(name, 1, DigitChars) \/ has_year(name) THEN FALSE
    ELSE IF \E k \in 1..Len(medical_indicators) :
                Contains(lower(name), medical_indicators[k])
         THEN TRUE
    ELSE Is(name, 1, UpperChars) /\ word_count(name) <= MaxNameWords

\* `$` without re.MULTILINE matches at index p of text: at the end, or before
\* a newline that ends the text
DollarAt(text, p) ==
    \/ p = Len(text) + 1
    \/ p = Len(text) /\ text[p] = "\n"

\* `(?:a|b|...|$)` matches at index p: free are the alternatives that may be
\* followed by anything, anchored the ones written `word$`
TermAt(text, p, free, anchored) ==
    \/ \E k \in 1..Len(free) : AtCI(text, p, free[k])
    \/ \E k \in 1..Len(anchored) :
           AtCI(text, p, anchored[k]) /\ DollarAt(text, p + Len(anchored[k]))
    \/ DollarAt(text, p)

\* re.search(keyword + r'[:\s]+(.*?)(?:...|$)', text, re.IGNORECASE | re.DOTALL):
\* None, or group(1) of the leftmost match. The separators are read greedily
\* and the lazy group ends at the first index a terminator matches at.
section_search(text, keyword, free, anchored) ==
    LET group(s, p) == Some(SubSeq(text, s, p - 1))
        lazy(s) == group(s, Least({x \in s..(Len(text) + 1) :
                                      TermAt(text, x, free, anchored)}))
        from(starts) == IF starts = {} THEN None
                        ELSE lazy(RunEnd(text, Least(starts) + Len(keyword), SepChars))
    IN  from({i \in 1..Len(text) :
                 AtCI(text, i, keyword) /\ Is(text, i + Len(keyword), SepChars)})

\* the keywords cf_patterns start with
cf_keywords == << <<"c","l","i","n","i","c","a","l"," ","f","e","a","t","u","r","e","s">>, <<"s","i","g","n","s"," ","a","n","d"," ","s","y","m","p","t","o","m","s">>, <<"p","r","e","s","e","n","t","a","t","i","o","n">> >>
\* (?:investigations|treatment|complications|$)
cf_terminators == << <<"i","n","v","e","s","t","i","g","a","t","i","o","n","s">>, <<"t","r","e","a","t","m","e","n","t">>, <<"c","o","m","p","l","i","c","a","t","i","o","n","s">> >>

RECURSIVE clinical_features_from(_, _)
clinical_features_from(text, k) ==
    LET found(match) == IF match # None
                        THEN truncate(normalize(strip(match[1])), MaxFeaturesLen)
                        ELSE clinical_features_from(text, k + 1)
    IN  IF k > Len(cf_keywords) THEN <<>>
        ELSE found(section_search(text, cf_keywords[k], cf_terminators, <<>>))

_extract_clinical_features(text, condition_name) == clinical_features_from(text, 1)

\* self.medical_sections
medical_sections ==
    [clinical_features |-> << <<"c","l","i","n","i","c","a","l"," ","f","e","a","t","u","r","e","s">>, <<"s","i","g","n","s"," ","a","n","d"," ","s","y","m","p","t","o","m","s">>,
                              <<"c","l","i","n","i","c","a","l"," ","p","r","e","s","e","n","t","a","t","i","o","n">>, <<"p","r","e","s","e","n","t","i","n","g"," ","f","e","a","t","u","r","e","s">>,
                              <<"c","l","i","n","i","c","a","l"," ","m","a","n","i","f","e","s","t","a","t","i","o","n","s">> >>,
     investigations    |-> << <<"i","n","v","e","s","t","i","g","a","t","i","o","n","s">>, <<"d","i","a","g","n","o","s","t","i","c"," ","t","e","s","t","s">>,
                              <<"l","a","b","o","r","a","t","o","r","y"," ","t","e","s","t","s">>, <<"d","i","a","g","n","o","s","t","i","c"," ","p","r","o","c","e","d","u","r","e","s">>,
                              <<"t","e","s","t","s"," ","r","e","q","u","i","r","e","d">> >>,
     treatment         |-> << <<"t","r","e","a","t","m","e","n","t">>, <<"m","a","n","a","g","e","m","e","n","t">>, <<"t","h","e","r","a","p","y">>,
                              <<"d","r","u","g"," ","t","h","e","r","a","p","y">>, <<"p","h","a","r","m","a","c","o","l","o","g","i","c","a","l"," ","t","r","e","a","t","m","e","n","t">>,
                              <<"m","e","d","i","c","a","t","i","o","n">> >>,
     complications     |-> << <<"c","o","m","p","l","i","c","a","t","i","o","n","s">>, <<"s","e","q","u","e","l","a","e">>, <<"a","d","v","e","r","s","e"," ","o","u","t","c","o","m","e","s">> >>]

\* sum(self.medical_sections.values(), [])
all_keywords ==
    medical_sections.clinical_features \o medical_sections.investigations
        \o medical_sections.treatment \o medical_sections.complications

\* "$|".join(all_keywords) puts `$` after every keyword but the last
anchored_keywords == SubSeq(all_keywords, 1, Len(all_keywords) - 1)
free_keywords == << all_keywords[Len(all_keywords)] >>

RECURSIVE section_content_from(_, _, _)
section_content_from(text, keywords, k) ==
    LET found(match) == IF match # None
                        THEN truncate(normalize(strip(match[1])), MaxContentLen)
                        ELSE section_content_from(text, keywords, k + 1)
    IN  IF k > Len(keywords) THEN <<>>
        ELSE found(section_search(text, keywords[k], free_keywords, anchored_keywords))

_extract_section_content(text, section_type) ==
    IF section_type \notin DOMAIN medical_sections THEN <<>>
    ELSE section_content_from(text, medical_sections[section_type], 1)

\* MedicalCondition(name=..., page_number=...) with the fields the loop fills
MedicalCondition(text, name, icd_code, page_number) ==
    [name              |-> name,
     icd_code          |-> IF icd_code = None THEN <<>> ELSE icd_code[1],
     clinical_features |-> _extract_clinical_features(text, name),
     investigations    |-> _extract_section_content(text, "investigations"),
     treatment         |-> _extract_section_content(text, "treatment"),
     page_number       |-> page_number]

\* `for pattern in self.condition_patterns` from pattern k on: a match whose
\* name fails the validation goes on with the next pattern, the first valid
\* one ends the loop
RECURSIVE line_condition(_, _, _, _)
line_condition(text, line, k, page_number) ==
    LET named(match, condition_name) ==
            IF _is_valid_medical_condition(condition_name)
            THEN << MedicalCondition(text, condition_name, match.icd_code, page_number) >>
            ELSE line_condition(text, line, k + 1, page_number)
        found(match) == IF match = None
                        THEN line_condition(text, line, k + 1, page_number)
                        ELSE named(match[1], strip(match[1].name))
    IN  IF k > ConditionPatterns THEN <<>>
        ELSE found(condition_match(line, k))

\* `for line in lines` from line i on
RECURSIVE conditions_from(_, _, _, _)
conditions_from(text, lines, i, page_number) ==
    LET found(line) == IF Len(line) < MinLineLen \/ Len(line) > MaxLineLen THEN <<>>
                       ELSE IF skip_line(line) THEN <<>>
                       ELSE line_condition(text, line, 1, page_number)
    IN  IF i > Len(lines) THEN <<>>
        ELSE found(strip(lines[i])) \o conditions_from(text, lines, i + 1, page_number)

_extract_conditions_from_page(text, page_number) ==
    conditions_from(text, split(text), 1, page_number)

-----------------------------------------------------------------------------
(* MedicalOCRExtractor.medication_patterns and _extract_medications_from_page *)

\* (mg|g|ml|IU|mcg|units?) in the order the alternatives are tried
dose_units == << <<"m","g">>, <<"g">>, <<"m","l">>, <<"I","U">>, <<"m","c","g">>, <<"u","n","i","t","s">>, <<"u","n","i","t">> >>
\* (mg|ml)
form_units == << <<"m","g">>, <<"m","l">> >>
\* (?:tablets?|capsules?|injection|syrup)
dose_forms ==
    << <<"t","a","b","l","e","t","s">>, <<"t","a","b","l","e","t">>, <<"c","a","p","s","u","l","e","s">>, <<"c","a","p","s","u","l","e">>, <<"i","n","j","e","c","t","i","o","n">>, <<"s","y","r","u","p">> >>

\* `(?:\s+(\w+))?` from index ue: group(4), and the index after the match
route_match(text, ue) ==
    LET word(w4, r) == IF w4 > ue /\ r > w4
                       THEN [route |-> Some(SubSeq(text, w4, r - 1)), end |-> r]
                       ELSE [route |-> None, end |-> ue]
        blanks(w4) == word(w4, RunEnd(text, w4, WordChars))
    IN  blanks(RunEnd(text, ue, SpaceChars))

\* `(\d+(?:\.\d+)?)\s*(u1|u2|...)` from index w: None, or the two groups and the
\* index after the unit
strength_match(text, w, units) ==
    LET unit(ne, u, k) == IF k = 0 THEN None
                          ELSE Some([dose |-> SubSeq(text, w, ne - 1),
                                     unit |-> units[k],
                                     end  |-> u + Len(units[k])])
        blanks(ne, u) == unit(ne, u, first_at(text, u, units))
        number(ne) == IF ne = 0 THEN None ELSE blanks(ne, RunEnd(text, ne, SpaceChars))
    IN  number(number_end(text, w))

\* `([A-Z][a-z]+)\s+` at index i: the index after it, 0 when it does not match
name_end(text, i) ==
    LET blanks(e1, w) == IF e1 = i + 1 \/ w = e1 THEN 0 ELSE w
        name(e1) == blanks(e1, RunEnd(text, e1, SpaceChars))
    IN  IF ~Is(text, i, UpperChars) THEN 0 ELSE name(RunEnd(text, i + 1, LowerChars))

\* r'([A-Z][a-z]+)\s+(\d+(?:\.\d+)?)\s*(mg|g|ml|IU|mcg|units?)(?:\s+(\w+))?'
\* at index i: None, or the groups and the index after the match
dose_pattern(text, i) ==
    LET match(s, r) == [name  |-> SubSeq(text, i, RunEnd(text, i + 1, LowerChars) - 1),
                        dose  |-> s.dose,
                        unit  |-> s.unit,
                        route |-> r.route,
                        end   |-> r.end]
        strength(s) == IF s = None THEN None
                       ELSE Some(match(s[1], route_match(text, s[1].end)))
        name(w) == IF w = 0 THEN None ELSE strength(strength_match(text, w, dose_units))
    IN  name(name_end(text, i))

\* r'([A-Z][a-z]+)\s+(?:tablets?|capsules?|injection|syrup)\s+(\d+(?:\.\d+)?)\s*(mg|ml)'
\* at index i; the pattern has no fourth group
form_pattern(text, i) ==
    LET strength(s) == IF s = None THEN None
                       ELSE Some([name  |-> SubSeq(text, i, RunEnd(text, i + 1, LowerChars) - 1),
                                  dose  |-> s[1].dose,
                                  unit  |-> s[1].unit,
                                  route |-> None,
                                  end   |-> s[1].end])
        blanks(fe, w2) == IF w2 = fe THEN None
                          ELSE strength(strength_match(text, w2, form_units))
        form(w, f) == IF f = 0 THEN None
                      ELSE blanks(w + Len(dose_forms[f]),
                                  RunEnd(text, w + Len(dose_forms[f]), SpaceChars))
        name(w) == IF w = 0 THEN None ELSE form(w, first_at(text, w, dose_forms))
    IN  name(name_end(text, i))

\* medication pattern k matched at index i of text
medication_match(text, i, k) ==
    IF k = 1 THEN dose_pattern(text, i) ELSE form_pattern(text, i)

\* the number of self.medication_patterns
MedicationPatterns == 2

\* re.finditer(pattern, text) from index pos: the matches, left to right
RECURSIVE medication_finditer(_, _, _)
medication_finditer(text, k, pos) ==
    LET rest(m) == <<m[1]>> \o medication_finditer(text, k, m[1].end)
        from(starts) == IF starts = {} THEN <<>>
                        ELSE rest(medication_match(text, Least(starts), k))
    IN  from({i \in pos..Len(text) : medication_match(text, i, k) # None})

\* `len(name) < 3 or len(name) > 30`
MinMedLen == 3
MaxMedLen == 30

\* skip_words of _is_valid_medication_name
skip_words ==
    << <<"T","a","b","l","e">>, <<"P","a","g","e">>, <<"C","h","a","p","t","e","r">>, <<"S","e","c","t","i","o","n">>, <<"A","n","d">>, <<"T","h","e">>, <<"F","o","r">>, <<"W","i","t","h">> >>

_is_valid_medication_name(name) ==
    IF Len(name) < MinMedLen \/ Len(name) > MaxMedLen THEN FALSE
    ELSE IF ~Is(name, 1, UpperChars) THEN FALSE
    ELSE ~\E k \in 1..Len(skip_words) : Contains(name, skip_words[k])

\* the dict one match gives: 'route' is a key only when group(4) matched
medication_dict(m, page_number) ==
    LET with_route(medication) ==
            IF m.route # None THEN [route |-> m.route[1]] @@ medication ELSE medication
    IN  with_route([name        |-> strip(m.name),
                    page_number |-> page_number,
                    strength    |-> m.dose \o m.unit])

\* the dicts one pattern gives on a page
pattern_medications(text, k, page_number) ==
    LET dicts(valid) == [i \in 1..Len(valid) |-> medication_dict(valid[i], page_number)]
    IN  dicts(SelectSeq(medication_finditer(text, k, 1),
                        LAMBDA m : _is_valid_medication_name(strip(m.name))))

RECURSIVE medications_from(_, _, _)
medications_from(text, k, page_number) ==
    IF k > MedicationPatterns THEN <<>>
    ELSE pattern_medications(text, k, page_number) \o medications_from(text, k + 1, page_number)

_extract_medications_from_page(text, page_number) == medications_from(text, 1, page_number)

-----------------------------------------------------------------------------
(* MedicalOCRExtractor._store_medical_data *)

\* the row INSERT OR REPLACE would leave: the old row of that name is deleted
\* and the new one is written
insert_or_replace(rows, c, id) ==
    SelectSeq(rows, LAMBDA r : r.name # c.name)
        \o <<[id                |-> id,
              name              |-> c.name,
              icd10_code        |-> c.icd_code,
              clinical_features |-> c.clinical_features,
              investigations    |-> c.investigations,
              treatment         |-> c.treatment,
              page_number       |-> c.page_number]>>

\* the row a plain INSERT on a table without the UNIQUE constraint would
\* leave: every record is written
insert_plain(rows, c, id) ==
    Append(rows, [id                |-> id,
                  name              |-> c.name,
                  icd10_code        |-> c.icd_code,
                  clinical_features |-> c.clinical_features,
                  investigations    |-> c.investigations,
                  treatment         |-> c.treatment,
                  page_number       |-> c.page_number])

\* `INSERT OR IGNORE INTO conditions ...`: name is UNIQUE, so a record whose
\* name is in the table already is ignored; otherwise the row is written
insert_or_ignore(rows, c, id) ==
    IF \E i \in 1..Len(rows) : rows[i].name = c.name THEN rows
    ELSE Append(rows, [id                |-> id,
                       name              |-> c.name,
                       icd10_code        |-> c.icd_code,
                       clinical_features |-> c.clinical_features,
                       investigations    |-> c.investigations,
                       treatment         |-> c.treatment,
                       page_number       |-> c.page_number])

\* `SELECT id FROM conditions WHERE name = ?` ... fetchone()[0]
select_id(rows, name) ==
    rows[CHOOSE i \in 1..Len(rows) : rows[i].name = name].id

\* `cursor.lastrowid or cursor.execute("SELECT id ...").fetchone()[0]`: the
\* SELECT runs only when lastrowid is 0 (or None)
condition_id(rowid, rows, name) ==
    IF rowid # 0 THEN rowid ELSE select_id(rows, name)

\* f"{a} {b}"
Join(a, b) == a \o <<" ">> \o b

StoreInit ==
    /\ st_pc = "idle"
    /\ st_conditions = <<>>
    /\ st_treatments = <<>>
    /\ st_medications = <<>>
    /\ lastrowid = 0
    /\ db_conditions = <<>>
    /\ seq_conditions = 0
    /\ db_treatments = <<>>
    /\ db_medications = <<>>
    /\ db_search_index = <<>>
    /\ stored = <<>>
    /\ st_given = <<>>
    /\ st_done = <<>>
    /\ st_log = <<>>

\* the records handed to _store_medical_data so far, over all calls
RecordCount == Len(st_given)

\* the records of one loop, each with the kind of the loop
of_kind(kind, records) ==
    [k \in 1..Len(records) |-> [kind |-> kind, record |-> records[k]]]

\* the loop has dealt with a record: ok tells whether its writes went through
done(kind, record, ok) == [kind |-> kind, record |-> record, ok |-> ok]

\* a handler that gives up the loop
abort_loop(pending) == <<>>

\* `except sqlite3.Error as e: logger.warning(...)`: the handler is the last
\* statement of the loop body, so the loop goes on with the records after the
\* one that failed
after_failure(pending) == Tail(pending)

\* logger.warning(f"Error storing condition {condition.name}: {e}") and
\* logger.warning(f"Error storing medication {medication['name']}: {e}") name
\* the record; logger.warning(f"Error storing treatment: {e}") does not
warning(kind, record) ==
    [kind |-> kind,
     name |-> IF kind = "treatment" THEN None ELSE Some(record.name)]

\* _store_medical_data(cs, ts, ms) up to the first loop:
\* `conn = sqlite3.connect(self.db_path); cursor = conn.cursor()`: a call
\* starts on a new connection, on the database the earlier calls left
store_call(cs, ts, ms) ==
    /\ st_pc = "idle"
    /\ st_pc' = "conditions"
    /\ st_conditions' = cs
    /\ st_treatments' = ts
    /\ st_medications' = ms
    /\ lastrowid' = 0
    /\ st_given' = st_given \o of_kind("condition", cs) \o of_kind("treatment", ts)
                       \o of_kind("medication", ms)
    /\ UNCHANGED <<db_conditions, seq_conditions, db_treatments, db_medications,
                   db_search_index, stored, st_done, st_log>>

\* a call of _store_medical_data on its own
StoreCall(cs, ts, ms) ==
    /\ store_call(cs, ts, ms)
    /\ UNCHANGED notStore

\* one turn of `for condition in conditions`. AUTOINCREMENT draws the next id
\* from sqlite_sequence before the UNIQUE check, so an ignored insert uses one
\* up; sqlite3_last_insert_rowid (cursor.lastrowid) is left as it was by an
\* ignored insert and is set by the insert into search_index as well.
StoreCondition ==
    /\ st_pc = "conditions"
    /\ st_conditions # <<>>
    /\ LET c       == Head(st_conditions)
           id      == seq_conditions + 1
           rows    == insert_or_ignore(db_conditions, c, id)
           written == rows # db_conditions
           rowid   == IF written THEN id ELSE lastrowid
           cid     == condition_id(rowid, rows, c.name)
       IN  /\ db_conditions' = rows
           /\ seq_conditions' = id
           /\ db_search_index' =
                  Append(db_search_index,
                         [content_type    |-> "condition",
                          content_id      |-> cid,
                          title           |-> c.name,
                          searchable_text |->
                              Join(Join(c.name, c.clinical_features), c.treatment)])
           /\ lastrowid' = Len(db_search_index) + 1
           /\ stored' = Append(stored, c)
           /\ st_done' = Append(st_done, done("condition", c, TRUE))
    /\ st_conditions' = Tail(st_conditions)
    /\ UNCHANGED <<st_pc, st_treatments, st_medications, db_treatments, db_medications,
                   st_given, st_log>>
    /\ UNCHANGED notStore

\* a turn of `for condition in conditions` whose INSERT OR IGNORE raises
\* sqlite3.Error: nothing is written, the warning is logged
StoreConditionFails ==
    /\ st_pc = "conditions"
    /\ st_conditions # <<>>
    /\ st_done' = Append(st_done, done("condition", Head(st_conditions), FALSE))
    /\ st_log' = Append(st_log, warning("condition", Head(st_conditions)))
    /\ st_conditions' = after_failure(st_conditions)
    /\ UNCHANGED <<st_pc, st_treatments, st_medications, lastrowid, db_conditions,
                   seq_conditions, db_treatments, db_medications, db_search_index,
                   stored, st_given>>
    /\ UNCHANGED notStore

\* a turn of `for condition in conditions` whose INSERT INTO search_index
\* raises sqlite3.Error: the statement before it has run, so the conditions row
\* (if the name was new) stays; the warning is logged
StoreConditionIndexFails ==
    /\ st_pc = "conditions"
    /\ st_conditions # <<>>
    /\ LET c       == Head(st_conditions)
           id      == seq_conditions + 1
           rows    == insert_or_ignore(db_conditions, c, id)
       IN  /\ db_conditions' = rows
           /\ seq_conditions' = id
           /\ lastrowid' = IF rows # db_conditions THEN id ELSE lastrowid
           /\ stored' = Append(stored, c)
           /\ st_done' = Append(st_done, done("condition", c, FALSE))
           /\ st_log' = Append(st_log, warning("condition", c))
    /\ st_conditions' = after_failure(st_conditions)
    /\ UNCHANGED <<st_pc, st_treatments, st_medications, db_treatments, db_medications,
                   db_search_index, st_given>>
    /\ UNCHANGED notStore

\* `for condition in conditions` ends
StoreConditionsDone ==
    /\ st_pc = "conditions"
    /\ st_conditions = <<>>
    /\ st_pc' = "treatments"
    /\ UNCHANGED <<st_conditions, st_treatments, st_medications, lastrowid,
                   db_conditions, seq_conditions, db_treatments, db_medications,
                   db_search_index, stored, st_given, st_done, st_log>>
    /\ UNCHANGED notStore

\* one turn of `for treatment in treatments`
StoreTreatment ==
    /\ st_pc = "treatments"
    /\ st_treatments # <<>>
    /\ db_treatments' = Append(db_treatments,
                               [id |-> Len(db_treatments) + 1] @@ Head(st_treatments))
    /\ lastrowid' = Len(db_treatments) + 1
    /\ st_done' = Append(st_done, done("treatment", Head(st_treatments), TRUE))
    /\ st_treatments' = Tail(st_treatments)
    /\ UNCHANGED <<st_pc, st_conditions, st_medications, db_conditions, seq_conditions,
                   db_medications, db_search_index, stored, st_given, st_log>>
    /\ UNCHANGED notStore

\* a turn of `for treatment in treatments` whose INSERT raises sqlite3.Error
StoreTreatmentFails ==
    /\ st_pc = "treatments"
    /\ st_treatments # <<>>
    /\ st_done' = Append(st_done, done("treatment", Head(st_treatments), FALSE))
    /\ st_log' = Append(st_log, warning("treatment", Head(st_treatments)))
    /\ st_treatments' = after_failure(st_treatments)
    /\ UNCHANGED <<st_pc, st_conditions, st_medications, lastrowid, db_conditions,
                   seq_conditions, db_treatments, db_medications, db_search_index,
                   stored, st_given>>
    /\ UNCHANGED notStore

\* `for treatment in treatments` ends
StoreTreatmentsDone ==
    /\ st_pc = "treatments"
    /\ st_treatments = <<>>
    /\ st_pc' = "medications"
    /\ UNCHANGED <<st_conditions, st_treatments, st_medications, lastrowid,
                   db_conditions, seq_conditions, db_treatments, db_medications,
                   db_search_index, stored, st_given, st_done, st_log>>
    /\ UNCHANGED notStore

\* one turn of `for medication in medications`; medication.get(k, '') is the
\* empty string for a key the dict lacks
StoreMedication ==
    /\ st_pc = "medications"
    /\ st_medications # <<>>
    /\ LET medication    == Head(st_medications)
           medication_id == Len(db_medications) + 1
       IN  /\ db_medications' =
                  Append(db_medications,
                         [id           |-> medication_id,
                          generic_name |-> medication.name,
                          strength     |-> get(medication, "strength", <<>>),
                          route        |-> get(medication, "route", <<>>),
                          page_number  |-> medication.page_number])
           /\ db_search_index' =
                  Append(db_search_index,
                         [content_type    |-> "medication",
                          content_id      |-> medication_id,
                          title           |-> medication.name,
                          searchable_text |->
                              Join(medication.name, get(medication, "strength", <<>>))])
           /\ lastrowid' = Len(db_search_index) + 1
           /\ st_done' = Append(st_done, done("medication", medication, TRUE))
    /\ st_medications' = Tail(st_medications)
    /\ UNCHANGED <<st_pc, st_conditions, st_treatments, db_conditions, seq_conditions,
                   db_treatments, stored, st_given, st_log>>
    /\ UNCHANGED notStore

\* a turn of `for medication in medications` whose INSERT INTO medications
\* raises sqlite3.Error
StoreMedicationFails ==
    /\ st_pc = "medications"
    /\ st_medications # <<>>
    /\ st_done' = Append(st_done, done("medication", Head(st_medications), FALSE))
    /\ st_log' = Append(st_log, warning("medication", Head(st_medications)))
    /\ st_medications' = after_failure(st_medications)
    /\ UNCHANGED <<st_pc, st_conditions, st_treatments, lastrowid, db_conditions,
                   seq_conditions, db_treatments, db_medications, db_search_index,
                   stored, st_given>>
    /\ UNCHANGED notStore

\* a turn of `for medication in medications` whose INSERT INTO search_index
\* raises sqlite3.Error: the medications row stays
StoreMedicationIndexFails ==
    /\ st_pc = "medications"
    /\ st_medications # <<>>
    /\ LET medication    == Head(st_medications)
           medication_id == Len(db_medications) + 1
       IN  /\ db_medications' =
                  Append(db_medications,
                         [id           |-> medication_id,
                          generic_name |-> medication.name,
                          strength     |-> get(medication, "strength", <<>>),
                          route        |-> get(medication, "route", <<>>),
                          page_number  |-> medication.page_number])
           /\ lastrowid' = medication_id
           /\ st_done' = Append(st_done, done("medication", medication, FALSE))
           /\ st_log' = Append(st_log, warning("medication", medication))
    /\ st_medications' = after_failure(st_medications)
    /\ UNCHANGED <<st_pc, st_conditions, st_treatments, db_conditions, seq_conditions,
                   db_treatments, db_search_index, stored, st_given>>
    /\ UNCHANGED notStore

\* `conn.commit(); conn.close()`
StoreCommit ==
    /\ st_pc = "medications"
    /\ st_medications = <<>>
    /\ st_pc' = "idle"
    /\ UNCHANGED <<st_conditions, st_treatments, st_medications, lastrowid,
                   db_conditions, seq_conditions, db_treatments, db_medications,
                   db_search_index, stored, st_given, st_done, st_log>>
    /\ UNCHANGED notStore

-----------------------------------------------------------------------------
(* The records the model hands to _store_medical_data *)

\* a MedicalCondition named name; v tells the extractions of a name apart
\* (the page it was found on and what the page gave for its fields)
ConditionRecord(name, v) ==
    [name              |-> name,
     icd_code          |-> IF v = 1 THEN <<"B","5","0">> ELSE <<>>,
     clinical_features |-> IF v = 1 THEN <<"F","e","v","e","r">> ELSE <<>>,
     investigations    |-> IF v = 1 THEN <<>> ELSE <<"B","l","o","o","d"," ","f","i","l","m">>,
     treatment         |-> IF v = 1 THEN <<"A","r","t","e","s","u","n","a","t","e">> ELSE <<"Q","u","i","n","i","n","e">>,
     page_number       |-> 30 + v]

ConditionNames == {<<"M","a","l","a","r","i","a">>, <<"T","y","p","h","o","i","d"," ","f","e","v","e","r">>}

ConditionRecords == {ConditionRecord(n, v) : n \in ConditionNames, v \in {1, 2}}

TreatmentRecords ==
    {[MedicalTreatment(<<"M","a","l","a","r","i","a">>, 31) EXCEPT !.first_line = <<"A","r","t","e","s","u","n","a","t","e"," ","2">>]}

MedicationRecords ==
    {[name |-> <<"Q","u","i","n","i","n","e">>, page_number |-> 31, strength |-> <<"3","0","0","m","g">>],
     [name |-> <<"P","a","r","a","c","e","t","a","m","o","l">>, page_number |-> 32, strength |-> <<"5","0","0","m","g">>,
      route |-> <<"o","r","a","l","l","y">>]}

\* the lists over S of at most n elements
SeqsUpTo(S, n) == UNION {[1..k -> S] : k \in 0..n}

StoreNext ==
    \/ \E cs \in SeqsUpTo(ConditionRecords, MaxRecords - RecordCount) :
       \E ts \in SeqsUpTo(TreatmentRecords, MaxRecords - RecordCount - Len(cs)) :
       \E ms \in SeqsUpTo(MedicationRecords,
                          MaxRecords - RecordCount - Len(cs) - Len(ts)) :
           StoreCall(cs, ts, ms)
    \/ StoreCondition
    \/ StoreConditionFails
    \/ StoreConditionIndexFails
    \/ StoreConditionsDone
    \/ StoreTreatment
    \/ StoreTreatmentFails
    \/ StoreTreatmentsDone
    \/ StoreMedication
    \/ StoreMedicationFails
    \/ StoreMedicationIndexFails
    \/ StoreCommit

-----------------------------------------------------------------------------
(* MedicalOCRExtractor.extract_medical_content *)

\* '\n'.join(lines)
RECURSIVE join_lines(_)
join_lines(lines) ==
    IF Len(lines) = 0 THEN <<>>
    ELSE IF Len(lines) = 1 THEN lines[1]
    ELSE lines[1] \o <<"\n">> \o join_lines(Tail(lines))

\* page.get_text() of the pages the model reads
PageTexts ==
    { join_lines(<< <<"S","e","v","e","r","e"," ","M","a","l","a","r","i","a">>, <<"F","i","r","s","t","-","l","i","n","e",":"," ","A","r","t","e","s","u","n","a","t","e"," ","2",".","4","m","g","/","k","g"," ","I","V">> >>),
      <<"T","r","e","a","t","m","e","n","t",":"," ","A","r","t","e","s","u","n","a","t","e"," ","2",".","4","m","g","/","k","g"," ","I","V">>,
      join_lines(<< <<"T","y","p","h","o","i","d"," ","f","e","v","e","r">>, <<"D","o","s","e",":"," ","5","0","0"," ","m","g"," ","t","w","i","c","e"," ","d","a","i","l","y">>,
                    <<"A","l","t","e","r","n","a","t","i","v","e",":"," ","Q","u","i","n","i","n","e"," ","t","a","b","l","e","t","s"," ","3","0","0"," ","m","g">> >>),
      join_lines(<< <<"H","e","p","a","t","i","t","i","s">>, <<"C","h","r","o","n","i","c"," ","G","a","s","t","r","i","t","i","s">>, <<"D","u","r","a","t","i","o","n",":"," ","7"," ","d","a","y","s">> >>),
      join_lines(<< <<"D","u","r","a","t","i","o","n",":"," ","7"," ","d","a","y","s">>, <<"F","i","r","s","t","-","l","i","n","e",":"," ","O","R","S">> >>),
      join_lines(<< <<"I","n","t","r","o","d","u","c","t","i","o","n">>, <<"G","a","s","t","r","i","t","i","s"," ","W","H","O"," ","(","K","2","9",")">> >>),
      join_lines(<< <<"C","h","r","o","n","i","c"," ","G","h","a","n","a"," ","U","l","c","e","r","s">>, <<"T","h","e","o","p","h","y","l","l","i","n","e"," ","2","0","0"," ","m","g">> >>) }

\* the smaller of two numbers
min(a, b) == IF a <= b THEN a ELSE b

\* `current_condition = page_conditions[0]`: the first condition of the page
first_condition(page_conditions) == Some(page_conditions[1])

\* `current_condition = page_conditions[-1]`: the last condition of the page
last_condition(page_conditions) == Some(page_conditions[Len(page_conditions)])

\* a scan that looks for treatments whether or not a condition was seen
always(context) == TRUE

\* `if current_condition:`: a MedicalCondition is true, None is false
has_condition(context) == context # None

\* condition_name of the treatments of a page
context_name(context) == IF context = None THEN None ELSE context[1].name

ScanInit ==
    /\ sc_pc = "idle"
    /\ total_pages = 0
    /\ start_page = 0
    /\ max_pages = 0
    /\ end_page = 0
    /\ scan_page_num = 0
    /\ current_condition = None
    /\ conditions = <<>>
    /\ treatments = <<>>
    /\ medications = <<>>
    /\ stats = [pages_processed   |-> 0,
                conditions_found  |-> 0,
                treatments_found  |-> 0,
                medications_found |-> 0]
    /\ scanned = <<>>

\* extract_medical_content(start_page, max_pages) on a document of tp pages, up
\* to the loop: a start page at or past the document length ends the call
ScanStart(tp, sp, mp) ==
    /\ sc_pc = "idle"
    /\ total_pages' = tp
    /\ start_page' = sp
    /\ max_pages' = mp
    /\ IF sp >= tp
       THEN /\ sc_pc' = "done"
            /\ UNCHANGED <<end_page, scan_page_num>>
       ELSE /\ sc_pc' = "scan"
            /\ end_page' = min(sp + mp, tp)
            /\ scan_page_num' = sp - 1
    /\ UNCHANGED <<current_condition, conditions, treatments, medications, stats,
                   scanned>>
    /\ UNCHANGED notScan

\* what one turn of the loop finds on page page_number, whose text is text,
\* when the context slot holds previous: the conditions of the page, the
\* context after it, the treatments and the medications
scan_page(text, page_number, previous) ==
    LET found(page_conditions, context) ==
            [conditions  |-> page_conditions,
             context     |-> context,
             treatments  |-> IF has_condition(context)
                             THEN _extract_treatments_from_page(
                                      text, context_name(context), page_number)
                             ELSE <<>>,
             medications |-> _extract_medications_from_page(text, page_number)]
        slot(page_conditions) ==
            found(page_conditions,
                  IF page_conditions # <<>>
                  THEN last_condition(page_conditions)
                  ELSE previous)
    IN  slot(_extract_conditions_from_page(text, page_number))

\* one turn of `for page_num in range(start_page - 1, end_page)` on a page
\* whose text is text
ScanPage(text) ==
    /\ sc_pc = "scan"
    /\ scan_page_num < end_page
    /\ \E page \in {scan_page(text, scan_page_num + 1, current_condition)} :
           /\ conditions' = conditions \o page.conditions
           /\ current_condition' = page.context
           /\ treatments' = treatments \o page.treatments
           /\ medications' = medications \o page.medications
           /\ scanned' = Append(scanned, [page_number |-> scan_page_num + 1,
                                          text        |-> text,
                                          context     |-> page.context])
    /\ stats' = [stats EXCEPT !.pages_processed = @ + 1]
    /\ scan_page_num' = scan_page_num + 1
    /\ UNCHANGED <<sc_pc, total_pages, start_page, max_pages, end_page>>
    /\ UNCHANGED notScan

\* the loop is over: `self._store_medical_data(conditions, treatments, medications)`
\* is called
ScanStore ==
    /\ sc_pc = "scan"
    /\ scan_page_num >= end_page
    /\ sc_pc' = "store"
    /\ store_call(conditions, treatments, medications)
    /\ UNCHANGED <<total_pages, start_page, max_pages, end_page, scan_page_num,
                   current_condition, conditions, treatments, medications, stats,
                   scanned>>
    /\ UNCHANGED <<structVars, buildVars, embedVars, callVars>>

\* _store_medical_data has returned: `self.stats[...] = len(...)`
ScanStats ==
    /\ sc_pc = "store"
    /\ st_pc = "idle"
    /\ sc_pc' = "done"
    /\ stats' = [stats EXCEPT !.conditions_found  = Len(conditions),
                              !.treatments_found  = Len(treatments),
                              !.medications_found = Len(medications)]
    /\ UNCHANGED <<total_pages, start_page, max_pages, end_page, scan_page_num,
                   current_condition, conditions, treatments, medications, scanned>>
    /\ UNCHANGED notScan

ScanNext ==
    \/ \E tp \in 1..MaxPages, sp \in 1..MaxPages, mp \in 1..MaxPages : ScanStart(tp, sp, mp)
    \/ \E text \in PageTexts : ScanPage(text)
    \/ ScanStore
    \/ StoreCondition
    \/ StoreConditionsDone
    \/ StoreTreatment
    \/ StoreTreatmentsDone
    \/ StoreMedication
    \/ StoreCommit
    \/ ScanStats

-----------------------------------------------------------------------------
(* RAGPipelineBuilder._merge_ocr_with_chapters: the rows of the OCR database *)

\* a conversion that writes a missing number as 0
format_zero(o) == IF o = None THEN <<"0">> ELSE Str(o[1])

\* f"{x}" of an Optional[int] and of an Optional[str]
format_int(o) == IF o = None THEN <<"N","o","n","e">> ELSE Str(o[1])
format_str(o) == IF o = None THEN <<"N","o","n","e">> ELSE o[1]

\* `int(row[6]) if row[6] else 0`
row_page(page_number) == IF TruthyInt(page_number) THEN page_number[1] ELSE 0

\* f"Chapter {chapter_num}, Page {page_num}"
page_reference(chapter_num, page_no) ==
    <<"C","h","a","p","t","e","r"," ">> \o format_int(chapter_num) \o <<","," ","P","a","g","e"," ">> \o Str(page_no)

\* f"Chapter {chapter_num}, Section {section_num}, Page {page_num}"
section_reference(chapter_num, section_num, page_no) ==
    <<"C","h","a","p","t","e","r"," ">> \o format_int(chapter_num) \o <<","," ","S","e","c","t","i","o","n"," ">> \o format_str(section_num)
        \o <<","," ","P","a","g","e"," ">> \o Str(page_no)

\* the reference of a condition: `if section_num:` picks the form with the
\* section
condition_reference(chapter_num, section_num, page_no) ==
    IF Truthy(section_num) THEN section_reference(chapter_num, section_num, page_no)
    ELSE page_reference(chapter_num, page_no)

\* the reference of a medication: always the form without the section
medication_reference(chapter_num, section_num, page_no) ==
    page_reference(chapter_num, page_no)

\* the conditions_enhanced row written for a row of the OCR conditions
merge_condition(chs, row, id) ==
    LET at(page_no, found) ==
            [id                 |-> id,
             name               |-> row.name,
             chapter_number     |-> found.chapter_num,
             section_number     |-> found.section_num,
             page_number        |-> page_no,
             clinical_features  |-> row.clinical_features,
             investigations     |-> row.investigations,
             treatment          |-> row.treatment,
             reference_citation |->
                 condition_reference(found.chapter_num, found.section_num, page_no)]
        on(page_no) == at(page_no, _find_chapter_section(chs, page_no))
    IN  on(row_page(row.page_number))

\* the medications_enhanced row written for a row of the OCR medications;
\* dosage_info is not among the columns of the INSERT and stays NULL
merge_medication(chs, row, id) ==
    LET at(page_no, found) ==
            [id                 |-> id,
             generic_name       |-> row.generic_name,
             chapter_number     |-> found.chapter_num,
             section_number     |-> found.section_num,
             page_number        |-> page_no,
             strength           |-> row.strength,
             route              |-> row.route,
             dosage_info        |-> None,
             reference_citation |->
                 medication_reference(found.chapter_num, found.section_num, page_no)]
        on(page_no) == at(page_no, _find_chapter_section(chs, page_no))
    IN  on(row_page(row.page_number))

-----------------------------------------------------------------------------
(* RAGPipelineBuilder._create_content_chunks: the rows of content_chunks *)

\* the length content is cut to: chunk_content[:2000]
ChunkLimit == 2000

\* s[:n]
slice(s, n) == SubSeq(s, 1, min(n, Len(s)))

\* the medication chunk's content is written as it is
whole(s, n) == s

\* a slice that cuts nothing
no_slice(s, n) == s

\* the content of a condition's chunks is cut: chunk_content[:2000]
cut_condition(s, n) == slice(s, n)

\* the content of a medication's chunk is passed to the INSERT as it is
cut_medication(s, n) == whole(s, n)

\* `for chapter in self.chapters: if chapter['number'] == chapter_num: ...
\* break`, from chapter_title = ""
RECURSIVE chapter_title(_, _)
chapter_title(chs, chapter_num) ==
    IF chs = <<>> THEN <<>>
    ELSE IF chapter_num # None /\ Head(chs).number = chapter_num[1]
         THEN Head(chs).title
         ELSE chapter_title(Tail(chs), chapter_num)

\* the three chunks of a condition, in the order of the code: the chunk_type,
\* the words before the name, and the column the text is taken from
condition_chunks ==
    << [chunk_type |-> "treatment", lead |-> <<"T","r","e","a","t","m","e","n","t"," ","f","o","r"," ">>, field |-> "treatment"],
       [chunk_type |-> "clinical_features", lead |-> <<"C","l","i","n","i","c","a","l"," ","f","e","a","t","u","r","e","s"," ","o","f"," ">>,
        field |-> "clinical_features"],
       [chunk_type |-> "investigations", lead |-> <<"I","n","v","e","s","t","i","g","a","t","i","o","n","s"," ","f","o","r"," ">>,
        field |-> "investigations"] >>

\* a test that takes every column that is not NULL
not_null(field) == field # None

\* `if treatment:` and its like: a chunk is made for a column that is neither
\* NULL nor empty
has_text(field) == Truthy(field)

\* a content_chunks row without its id; embedding and created_at are not among
\* the columns of the INSERT and stay NULL
chunk_row(content, chunk_type, source_id, row, name, title, metadata) ==
    [content            |-> content,
     chunk_type         |-> chunk_type,
     source_id          |-> source_id,
     chapter_number     |-> row.chapter_number,
     chapter_title      |-> title,
     section_number     |-> row.section_number,
     page_number        |-> row.page_number,
     condition_name     |-> name,
     reference_citation |-> row.reference_citation,
     metadata           |-> metadata,
     embedding          |-> None,
     created_at         |-> None]

\* the chunk of kind k of a conditions_enhanced row:
\* f"Treatment for {name}: {treatment}" and its like, cut to 2000 characters
condition_chunk(chs, row, k) ==
    chunk_row(cut_condition(condition_chunks[k].lead \o row.name \o <<":"," ">>
                                \o row[condition_chunks[k].field][1], ChunkLimit),
              condition_chunks[k].chunk_type, row.id, row, row.name,
              chapter_title(chs, row.chapter_number),
              [condition_id |-> row.id, type |-> condition_chunks[k].chunk_type])

\* the chunks of a conditions_enhanced row, in the order of the code
RECURSIVE chunks_of_condition(_, _, _)
chunks_of_condition(chs, row, k) ==
    IF k > Len(condition_chunks) THEN <<>>
    ELSE (IF has_text(row[condition_chunks[k].field])
          THEN <<condition_chunk(chs, row, k)>> ELSE <<>>)
         \o chunks_of_condition(chs, row, k + 1)

\* chunk_content += f", Strength: {strength}" under `if strength:`
attribute(label, field) == IF Truthy(field) THEN label \o field[1] ELSE <<>>

\* the chunk of a medications_enhanced row
chunk_of_medication(chs, row) ==
    chunk_row(cut_medication(<<"M","e","d","i","c","a","t","i","o","n",":"," ">> \o row.generic_name
                                 \o attribute(<<","," ","S","t","r","e","n","g","t","h",":"," ">>, row.strength)
                                 \o attribute(<<","," ","R","o","u","t","e",":"," ">>, row.route)
                                 \o attribute(<<","," ","D","o","s","a","g","e",":"," ">>, row.dosage_info),
                             ChunkLimit),
              "medication", row.id, row, row.generic_name,
              chapter_title(chs, row.chapter_number),
              [medication_id |-> row.id, type |-> "medication"])

\* rows appended to a table whose id is AUTOINCREMENT
with_ids(table, rows) ==
    table \o [k \in 1..Len(rows) |-> [id |-> Len(table) + k] @@ rows[k]]

\* an INSERT that leaves out a chunk whose chunk_type and source_id are in
\* the table
RECURSIVE insert_unique_chunks(_, _)
insert_unique_chunks(table, rows) ==
    IF rows = <<>> THEN table
    ELSE insert_unique_chunks(
             IF \E c \in 1..Len(table) : /\ table[c].chunk_type = Head(rows).chunk_type
                                         /\ table[c].source_id = Head(rows).source_id
             THEN table
             ELSE with_ids(table, <<Head(rows)>>),
             Tail(rows))

\* `INSERT INTO content_chunks`: the table has no UNIQUE column and no key but
\* its id, so every row is added
insert_chunks(table, rows) == with_ids(table, rows)

-----------------------------------------------------------------------------
(* EmbeddingGenerator (generate_embeddings.py): the statements *)

\* batch_size = 32
BatchSize == 32

\* self.embedding_dim = 384
EmbeddingDim == 384

\* the columns id and content of the rows of a table
id_content(table) == [k \in 1..Len(table) |-> [id |-> table[k].id, content |-> table[k].content]]

\* a SELECT that fetches every row, with or without an embedding
every_chunk(table) == id_content(table)

\* `SELECT id, content FROM content_chunks WHERE embedding IS NULL`
null_chunks(table) ==
    LET embedding_is_null(row) == row.embedding = None
    IN  id_content(SelectSeq(table, embedding_is_null))

\* self.model.encode(texts)[k].astype(np.float32).tobytes(): the bytes of the
\* vector the model gives for a text; it depends on the text alone
encode(text) == [vector_of |-> text, floats |-> EmbeddingDim]

\* chunks[i:i+batch_size], each chunk id with the embedding of its content
batch(chunks, i) ==
    [k \in 1..(min(i + BatchSize, Len(chunks)) - i) |->
        [chunk_id |-> chunks[i + k].id, embedding_bytes |-> encode(chunks[i + k].content)]]

\* `UPDATE content_chunks SET embedding = ? WHERE id = ?`
set_embedding(table, embedding_bytes, chunk_id) ==
    [k \in 1..Len(table) |->
        IF table[k].id = chunk_id
        THEN [table[k] EXCEPT !.embedding = Some(embedding_bytes)]
        ELSE table[k]]

\* the row of `INSERT INTO embeddings (chunk_id, embedding, model_name,
\* dimension)`, without its id
embeddings_row(chunk_id, embedding_bytes) ==
    [chunk_id   |-> chunk_id,
     embedding  |-> embedding_bytes,
     model_name |-> "all-MiniLM-L6-v2",
     dimension  |-> EmbeddingDim]

-----------------------------------------------------------------------------
(* RAGPipelineBuilder.build_complete_database: the merge and the chunk steps *)

BuildInit ==
    /\ bd_pc = "idle"
    /\ bd_todo = <<>>
    /\ ocr_conditions = <<>>
    /\ ocr_medications = <<>>
    /\ db_conditions_enhanced = <<>>
    /\ db_medications_enhanced = <<>>
    /\ db_content_chunks = <<>>
    /\ chunks_committed = 0
    /\ chunk_runs = 0
    /\ bd_failed = None
    /\ bd_left = <<>>

\* _merge_ocr_with_chapters: `SELECT ... FROM conditions` and fetchall(), on an
\* OCR database that holds the rows cs and ms; the build does not write to the
\* OCR database, so a later run finds the rows the first run found
MergeSelectConditions(cs, ms) ==
    /\ pc = "merged"
    /\ bd_pc = "idle"
    /\ bd_left # <<>> => cs = ocr_conditions /\ ms = ocr_medications
    /\ bd_pc' = "merge_conditions"
    /\ ocr_conditions' = cs
    /\ ocr_medications' = ms
    /\ bd_todo' = cs
    /\ UNCHANGED <<db_conditions_enhanced, db_medications_enhanced, db_content_chunks,
                   chunks_committed, chunk_runs, bd_failed>>
    /\ UNCHANGED <<structVars, notBuild>>

\* one turn of `for row in ocr_cursor.fetchall()` over the conditions
MergeCondition ==
    /\ bd_pc = "merge_conditions"
    /\ bd_todo # <<>>
    /\ db_conditions_enhanced' =
           Append(db_conditions_enhanced,
                  merge_condition(chapters, Head(bd_todo), Len(db_conditions_enhanced) + 1))
    /\ bd_todo' = Tail(bd_todo)
    /\ UNCHANGED <<bd_pc, ocr_conditions, ocr_medications, db_medications_enhanced,
                   db_content_chunks, chunks_committed, chunk_runs, bd_failed>>
    /\ UNCHANGED <<structVars, notBuild>>

\* `SELECT ... FROM medications` and fetchall()
MergeSelectMedications ==
    /\ bd_pc = "merge_conditions"
    /\ bd_todo = <<>>
    /\ bd_pc' = "merge_medications"
    /\ bd_todo' = ocr_medications
    /\ UNCHANGED <<ocr_conditions, ocr_medications, db_conditions_enhanced,
                   db_medications_enhanced, db_content_chunks, chunks_committed,
                   chunk_runs, bd_failed>>
    /\ UNCHANGED <<structVars, notBuild>>

\* one turn of `for row in ocr_cursor.fetchall()` over the medications
MergeMedication ==
    /\ bd_pc = "merge_medications"
    /\ bd_todo # <<>>
    /\ db_medications_enhanced' =
           Append(db_medications_enhanced,
                  merge_medication(chapters, Head(bd_todo), Len(db_medications_enhanced) + 1))
    /\ bd_todo' = Tail(bd_todo)
    /\ UNCHANGED <<bd_pc, ocr_conditions, ocr_medications, db_conditions_enhanced,
                   db_content_chunks, chunks_committed, chunk_runs, bd_failed>>
    /\ UNCHANGED <<structVars, notBuild>>

\* a turn of one of the two loops whose INSERT raises sqlite3.Error: no try
\* block is around it, so the exception leaves _merge_ocr_with_chapters and
\* build_complete_database; ref_conn.commit() is never reached, and the rows
\* written since executescript (chapters and sections among them) are lost
MergeRowFails ==
    /\ bd_pc \in {"merge_conditions", "merge_medications"}
    /\ bd_todo # <<>>
    /\ bd_failed' = Some([table |-> IF bd_pc = "merge_conditions"
                                    THEN "conditions_enhanced"
                                    ELSE "medications_enhanced",
                          row   |-> Head(bd_todo)])
    /\ bd_pc' = "failed"
    /\ bd_todo' = <<>>
    /\ db_chapters' = <<>>
    /\ db_sections' = <<>>
    /\ db_conditions_enhanced' = <<>>
    /\ db_medications_enhanced' = <<>>
    /\ UNCHANGED <<ocr_conditions, ocr_medications, db_content_chunks, chunks_committed,
                   chunk_runs>>
    /\ UNCHANGED <<pc, page_num, tocLines, chapters, query, loc>>
    /\ UNCHANGED notBuild

\* `ref_conn.commit()` and the two close()
MergeCommit ==
    /\ bd_pc = "merge_medications"
    /\ bd_todo = <<>>
    /\ bd_pc' = "merged"
    /\ UNCHANGED <<bd_todo, ocr_conditions, ocr_medications, db_conditions_enhanced,
                   db_medications_enhanced, db_content_chunks, chunks_committed,
                   chunk_runs, bd_failed>>
    /\ UNCHANGED <<structVars, notBuild>>

\* _create_content_chunks: `SELECT ... FROM conditions_enhanced` and fetchall();
\* the call after the first is a call on the tables the calls before it left
ChunkSelectConditions ==
    /\ bd_pc \in {"merged", "chunked"}
    /\ chunk_runs < MaxChunkRuns
    /\ chunk_runs' = chunk_runs + 1
    /\ bd_pc' = "chunk_conditions"
    /\ bd_todo' = db_conditions_enhanced
    /\ UNCHANGED <<ocr_conditions, ocr_medications, db_conditions_enhanced,
                   db_medications_enhanced, db_content_chunks, chunks_committed,
                   bd_failed>>
    /\ UNCHANGED <<structVars, notBuild>>

\* one turn of `for row in cursor.fetchall()` over conditions_enhanced
ChunkCondition ==
    /\ bd_pc = "chunk_conditions"
    /\ bd_todo # <<>>
    /\ db_content_chunks' =
           insert_chunks(db_content_chunks, chunks_of_condition(chapters, Head(bd_todo), 1))
    /\ bd_todo' = Tail(bd_todo)
    /\ UNCHANGED <<bd_pc, ocr_conditions, ocr_medications, db_conditions_enhanced,
                   db_medications_enhanced, chunks_committed, chunk_runs, bd_failed>>
    /\ UNCHANGED <<structVars, notBuild>>

\* `SELECT ... FROM medications_enhanced` and fetchall()
ChunkSelectMedications ==
    /\ bd_pc = "chunk_conditions"
    /\ bd_todo = <<>>
    /\ bd_pc' = "chunk_medications"
    /\ bd_todo' = db_medications_enhanced
    /\ UNCHANGED <<ocr_conditions, ocr_medications, db_conditions_enhanced,
                   db_medications_enhanced, db_content_chunks, chunks_committed,
                   chunk_runs, bd_failed>>
    /\ UNCHANGED <<structVars, notBuild>>

\* one turn of `for row in cursor.fetchall()` over medications_enhanced
ChunkMedication ==
    /\ bd_pc = "chunk_medications"
    /\ bd_todo # <<>>
    /\ db_content_chunks' =
           insert_chunks(db_content_chunks, <<chunk_of_medication(chapters, Head(bd_todo))>>)
    /\ bd_todo' = Tail(bd_todo)
    /\ UNCHANGED <<bd_pc, ocr_conditions, ocr_medications, db_conditions_enhanced,
                   db_medications_enhanced, chunks_committed, chunk_runs, bd_failed>>
    /\ UNCHANGED <<structVars, notBuild>>

\* a turn of one of the two loops whose INSERT INTO content_chunks raises
\* sqlite3.Error: nothing catches it, conn.commit() is never reached, and the
\* chunks written by this call are lost
ChunkInsertFails ==
    /\ bd_pc \in {"chunk_conditions", "chunk_medications"}
    /\ bd_todo # <<>>
    /\ bd_pc = "chunk_conditions" => chunks_of_condition(chapters, Head(bd_todo), 1) # <<>>
    /\ bd_failed' = Some([table |-> "content_chunks", row |-> Head(bd_todo)])
    /\ bd_pc' = "failed"
    /\ bd_todo' = <<>>
    /\ db_content_chunks' = SubSeq(db_content_chunks, 1, chunks_committed)
    /\ UNCHANGED <<ocr_conditions, ocr_medications, db_conditions_enhanced,
                   db_medications_enhanced, chunks_committed, chunk_runs>>
    /\ UNCHANGED <<structVars, notBuild>>

\* `conn.commit(); conn.close()`
ChunkCommit ==
    /\ bd_pc = "chunk_medications"
    /\ bd_todo = <<>>
    /\ bd_pc' = "chunked"
    /\ chunks_committed' = Len(db_content_chunks)
    /\ UNCHANGED <<bd_todo, ocr_conditions, ocr_medications, db_conditions_enhanced,
                   db_medications_enhanced, db_content_chunks, chunk_runs, bd_failed>>
    /\ UNCHANGED <<structVars, notBuild>>

\* generate_all_embeddings, run from its SELECT to its last commit on the
\* database a full run of the build has left, once for each build: every
\* chunk without an embedding gets the embedding of its content and a row in
\* embeddings; a run that finds no such chunk returns at once
GenerateAllEmbeddings ==
    /\ bd_pc = "chunked"
    /\ chunk_runs = 1
    /\ em_runs = Len(bd_left)
    /\ em_runs < MaxEmbedRuns
    /\ \A chunks \in {null_chunks(db_content_chunks)} :
           /\ chunks # <<>>
           /\ db_content_chunks' =
                  [c \in 1..Len(db_content_chunks) |->
                      IF db_content_chunks[c].embedding = None
                      THEN [db_content_chunks[c] EXCEPT
                               !.embedding = Some(encode(db_content_chunks[c].content))]
                      ELSE db_content_chunks[c]]
           /\ db_embeddings' =
                  with_ids(db_embeddings,
                           [k \in 1..Len(chunks) |->
                               embeddings_row(chunks[k].id, encode(chunks[k].content))])
    /\ em_runs' = em_runs + 1
    /\ UNCHANGED <<em_pc, em_chunks, em_i, em_batch, db_durable>>
    /\ UNCHANGED <<structVars, storeVars, scanVars, callVars, bd_pc, bd_todo,
                   ocr_conditions, ocr_medications, db_conditions_enhanced,
                   db_medications_enhanced, chunks_committed, chunk_runs, bd_failed,
                   bd_left>>

\* `builder = RAGPipelineBuilder(); builder.build_complete_database()` once
\* more, after the pipeline has been through (a full run, which calls
\* _create_content_chunks once, and the embeddings of its chunks), up to the
\* end of _extract_chapters: the new builder starts with self.chapters = []
\* and reads the table of contents of the same PDF, which gives the chapter
\* list the run before had; stg_rag_complete.db stays as it was left until
\* _merge_ocr_with_chapters runs
Rebuild ==
    /\ pc = "merged"
    /\ bd_pc = "chunked"
    /\ chunk_runs = 1
    /\ null_chunks(db_content_chunks) = <<>>
    /\ Len(bd_left) < MaxRebuilds
    /\ bd_left' = Append(bd_left, [content_chunks |-> Len(db_content_chunks),
                                   embeddings     |-> Len(db_embeddings)])
    /\ pc' = "merge"
    /\ bd_pc' = "idle"
    /\ UNCHANGED <<page_num, tocLines, chapters, db_chapters, db_sections, query, loc>>
    /\ UNCHANGED <<bd_todo, ocr_conditions, ocr_medications, db_conditions_enhanced,
                   db_medications_enhanced, db_content_chunks, chunks_committed,
                   chunk_runs, bd_failed>>
    /\ UNCHANGED <<storeVars, scanVars, embedVars, callVars>>

-----------------------------------------------------------------------------
(* The TOC lines and the OCR rows the build reads *)

\* a text longer than a chunk may be
LongText == [i \in 1..(ChunkLimit + 1) |-> "a"]

BuildTocLines ==
    {ChapterLine(1, ChapterTitle(1), 10), ChapterLine(2, ChapterTitle(2), 20),
     SectionLine(186, <<"S","e","v","e","r","e"," ","M","a","l","a","r","i","a">>, 22)}

\* rows of the OCR conditions (name is UNIQUE in that table): one with its three texts on a page that may
\* have a section, one before every chapter with an empty and a NULL text and
\* a long one, one without a page and without texts
OcrConditions ==
    <<[name |-> <<"M","a","l","a","r","i","a">>, clinical_features |-> Some(<<"F","e","v","e","r">>),
      investigations |-> Some(<<"B","l","o","o","d"," ","f","i","l","m">>), treatment |-> Some(<<"A","r","t","e","s","u","n","a","t","e">>),
      page_number |-> Some(22)],
     [name |-> <<"T","y","p","h","o","i","d"," ","f","e","v","e","r">>, clinical_features |-> Some(<<>>),
      investigations |-> None, treatment |-> Some(LongText),
      page_number |-> Some(9)],
     [name |-> <<"H","e","p","a","t","i","t","i","s">>, clinical_features |-> None,
      investigations |-> None, treatment |-> Some(<<>>),
      page_number |-> None]>>

\* rows of the OCR medications: one on a page that may have a section, one
\* without a page and with a long text
OcrMedications ==
    <<[generic_name |-> <<"Q","u","i","n","i","n","e">>, strength |-> Some(<<"3","0","0","m","g">>), route |-> Some(<<>>),
      page_number |-> Some(22)],
     [generic_name |-> <<"P","a","r","a","c","e","t","a","m","o","l">>, strength |-> Some(<<"5","0","0","m","g">>),
      route |-> Some(LongText), page_number |-> None]>>

\* the rows of a table with the indexes of keep, in the order of the table
sub_table(table, keep) ==
    LET at(idx) == [k \in 1..Len(idx) |-> table[idx[k]]]
    IN  at(SelectSeq([i \in 1..Len(table) |-> i], LAMBDA i : i \in keep))

\* the tables of at most n rows out of the rows of a table
Tables(table, n) ==
    {sub_table(table, keep) : keep \in {S \in SUBSET (1..Len(table)) : Cardinality(S) <= n}}

BuildNext ==
    \/ \E line \in BuildTocLines : ExtractLine(line)
    \/ NextTocPage
    \/ MergeChapters
    \/ \E cs \in Tables(OcrConditions, MaxOcrRows) :
       \E ms \in Tables(OcrMedications, MaxOcrRows - Len(cs)) :
           MergeSelectConditions(cs, ms)
    \/ MergeCondition
    \/ MergeSelectMedications
    \/ MergeMedication
    \/ MergeRowFails
    \/ MergeCommit
    \/ ChunkSelectConditions
    \/ ChunkCondition
    \/ ChunkSelectMedications
    \/ ChunkMedication
    \/ ChunkInsertFails
    \/ ChunkCommit
    \/ GenerateAllEmbeddings
    \/ Rebuild

-----------------------------------------------------------------------------
(* EmbeddingGenerator.generate_all_embeddings: the steps *)

EmbedInit ==
    /\ em_pc = "none"
    /\ em_runs = 0
    /\ em_chunks = <<>>
    /\ em_i = 0
    /\ em_batch = <<>>
    /\ db_embeddings = <<>>
    /\ db_durable = [content_chunks |-> <<>>, embeddings |-> <<>>]

\* the chunks _create_content_chunks writes for one condition and one
\* medication
ChunksOfOneRun ==
    chunks_of_condition(<<>>, merge_condition(<<>>, OcrConditions[1], 1), 1)
        \o <<chunk_of_medication(<<>>, merge_medication(<<>>, OcrMedications[1], 1))>>

\* content_chunks after enough runs of _create_content_chunks to hold n rows
ChunkTable(n) ==
    insert_chunks(<<>>, [k \in 1..n |-> ChunksOfOneRun[((k - 1) % Len(ChunksOfOneRun)) + 1]])

\* the sizes of content_chunks: none, less than a batch, a batch and one more,
\* full batches and one more
ChunkTableSizes == {0, 1, BatchSize + 1, MaxFullBatches * BatchSize + 1}

\* the database build_complete_database has left: content_chunks as written
\* by _create_content_chunks and committed, the embeddings table empty
EmbedOpen(n) ==
    /\ em_pc = "none"
    /\ bd_pc = "idle"
    /\ db_content_chunks = <<>>
    /\ db_content_chunks' = ChunkTable(n)
    /\ chunks_committed' = n
    /\ db_embeddings' = <<>>
    /\ db_durable' = [content_chunks |-> ChunkTable(n), embeddings |-> <<>>]
    /\ em_pc' = "idle"
    /\ UNCHANGED <<em_runs, em_chunks, em_i, em_batch>>
    /\ UNCHANGED <<structVars, storeVars, scanVars, callVars, bd_pc, bd_todo,
                   ocr_conditions, ocr_medications, db_conditions_enhanced,
                   db_medications_enhanced, chunk_runs, bd_failed, bd_left>>

\* sqlite3.connect, the SELECT of the chunks without an embedding, fetchall()
EmbedSelect ==
    /\ em_pc \in {"idle", "complete", "stopped"}
    /\ em_runs < MaxEmbedRuns
    /\ em_runs' = em_runs + 1
    /\ em_chunks' = null_chunks(db_content_chunks)
    /\ em_i' = 0
    /\ em_batch' = <<>>
    /\ em_pc' = "batch"
    /\ UNCHANGED <<db_content_chunks, db_embeddings, db_durable>>
    /\ UNCHANGED notEmbed

\* one turn of `for i in range(0, len(chunks), batch_size)` up to the encoding
EmbedBatch ==
    /\ em_pc = "batch"
    /\ em_i < Len(em_chunks)
    /\ em_batch' = batch(em_chunks, em_i)
    /\ em_pc' = "store"
    /\ UNCHANGED <<em_runs, em_chunks, em_i, db_content_chunks, db_embeddings, db_durable>>
    /\ UNCHANGED notEmbed

\* one turn of `for chunk_id, embedding in zip(chunk_ids, embeddings)`: the
\* UPDATE of the chunk and the INSERT into embeddings
EmbedStore ==
    /\ em_pc = "store"
    /\ em_batch # <<>>
    /\ db_content_chunks' = set_embedding(db_content_chunks, Head(em_batch).embedding_bytes,
                                          Head(em_batch).chunk_id)
    /\ db_embeddings' = with_ids(db_embeddings,
                                 <<embeddings_row(Head(em_batch).chunk_id,
                                                  Head(em_batch).embedding_bytes)>>)
    /\ em_batch' = Tail(em_batch)
    /\ UNCHANGED <<em_pc, em_runs, em_chunks, em_i, db_durable>>
    /\ UNCHANGED notEmbed

\* conn.commit() at the end of a batch, and the step of the loop
EmbedCommit ==
    /\ em_pc = "store"
    /\ em_batch = <<>>
    /\ db_durable' = [content_chunks |-> db_content_chunks, embeddings |-> db_embeddings]
    /\ em_i' = em_i + BatchSize
    /\ em_pc' = "batch"
    /\ UNCHANGED <<em_runs, em_chunks, em_batch, db_content_chunks, db_embeddings>>
    /\ UNCHANGED notEmbed

\* the loop is over: conn.close()
EmbedClose ==
    /\ em_pc = "batch"
    /\ em_i >= Len(em_chunks)
    /\ em_pc' = "complete"
    /\ UNCHANGED <<em_runs, em_chunks, em_i, em_batch, db_content_chunks, db_embeddings,
                   db_durable>>
    /\ UNCHANGED notEmbed

\* the run ends before its loop does (the process is stopped, or encode or
\* execute raises): what was written since the last commit is rolled back
EmbedStops ==
    /\ em_pc \in {"batch", "store"}
    /\ db_content_chunks' = db_durable.content_chunks
    /\ db_embeddings' = db_durable.embeddings
    /\ em_chunks' = <<>>
    /\ em_batch' = <<>>
    /\ em_i' = 0
    /\ em_pc' = "stopped"
    /\ UNCHANGED <<em_runs, db_durable>>
    /\ UNCHANGED notEmbed

EmbedNext ==
    \/ \E n \in ChunkTableSizes : EmbedOpen(n)
    \/ EmbedSelect
    \/ EmbedBatch
    \/ EmbedStore
    \/ EmbedCommit
    \/ EmbedClose
    \/ EmbedStops

-----------------------------------------------------------------------------
(* Calls of _extract_section_content and _extract_clinical_features *)

CallInit == fx_call = None

\* more characters than a helper returns, with blanks and a run of two blanks
LongPiece ==
    [i \in 1..(MaxFeaturesLen + 20) |->
        IF i % 9 = 0 \/ i = 100 \/ i = MaxFeaturesLen + 20 THEN " " ELSE "x"]

\* the pieces of the texts the helpers are called with: a keyword of each of
\* three section types with what follows it, and a long run of words
TextPieces ==
    { <<"T","r","e","a","t","m","e","n","t",":"," ","g","i","v","e"," ","O","R","S"," ">>,
      <<"I","n","v","e","s","t","i","g","a","t","i","o","n","s",":"," "," ","b","l","o","o","d"," ","f","i","l","m">> \o <<"\n">>,
      <<"C","l","i","n","i","c","a","l"," ","f","e","a","t","u","r","e","s",":"," ","f","e","v","e","r"," ">>,
      LongPiece }

RECURSIVE concat(_)
concat(pieces) == IF pieces = <<>> THEN <<>> ELSE Head(pieces) \o concat(Tail(pieces))

\* the section types a call names: those of medical_sections and one that is
\* not among them
SectionTypes == DOMAIN medical_sections \cup {"dosage"}

\* content = self._extract_section_content(text, section_type)
SectionContentCall(text, section_type) ==
    /\ fx_call = None
    /\ fx_call' = Some([function     |-> "_extract_section_content",
                        text         |-> text,
                        section_type |-> section_type,
                        result       |-> _extract_section_content(text, section_type)])
    /\ UNCHANGED <<structVars, storeVars, scanVars, buildVars, embedVars>>

\* features = self._extract_clinical_features(text, condition_name)
ClinicalFeaturesCall(text) ==
    /\ fx_call = None
    /\ fx_call' = Some([function     |-> "_extract_clinical_features",
                        text         |-> text,
                        section_type |-> "clinical_features",
                        result       |-> _extract_clinical_features(text, <<>>)])
    /\ UNCHANGED <<structVars, storeVars, scanVars, buildVars, embedVars>>

CallNext ==
    \E pieces \in SeqsUpTo(TextPieces, MaxPieces) :
        \/ \E section_type \in SectionTypes : SectionContentCall(concat(pieces), section_type)
        \/ ClinicalFeaturesCall(concat(pieces))

-----------------------------------------------------------------------------
(* Specifications *)

\* build_complete_database: structure parsing, merge and resolution
Init == StructInit /\ StoreInit /\ ScanInit /\ BuildInit /\ EmbedInit /\ CallInit

Next == StructNext

Spec == Init /\ [][Next]_vars

\* _store_medical_data, called any number of times on one database
StoreSpec == Init /\ [][StoreNext]_vars

\* extract_medical_content, called once on a new database
ScanSpec == Init /\ [][ScanNext]_vars

\* build_complete_database: the structure, the merge of the OCR rows and the
\* chunks; _create_content_chunks may be called again on the same tables
BuildSpec == Init /\ [][BuildNext]_vars

\* generate_all_embeddings, called one time after another on the database
\* build_complete_database has left
EmbedSpec == Init /\ [][EmbedNext]_vars

\* the text helpers of the extractor, called on any text
CallSpec == Init /\ [][CallNext]_vars

-----------------------------------------------------------------------------
(* Claims about the resolver and the structure parser *)

\* no two rows of a chapter list or table share a number or a start_page
UniqueChapters(rows) ==
    \A i, j \in 1..Len(rows) :
        i < j => /\ rows[i].number # rows[j].number
                 /\ rows[i].start_page # rows[j].start_page

\* the chapter list is in ascending start_page order, start pages unique
SortedByStartPage(chs) ==
    \A i, j \in 1..Len(chs) : i < j => chs[i].start_page < chs[j].start_page

\* the indices of the chapters that start at or before page p
Covering(chs, p) == {i \in 1..Len(chs) : chs[i].start_page <= p}

\* the covering chapters with the greatest start_page
Nearest(chs, p) ==
    {i \in Covering(chs, p) :
        \A j \in Covering(chs, p) : chs[j].start_page <= chs[i].start_page}

\* the lower-bound reference: the chapter numbers the rule allows for page p
ReferenceChapter(chs, p) ==
    IF Covering(chs, p) = {} THEN {None}
    ELSE {Some(chs[i].number) : i \in Nearest(chs, p)}

\* C1: on a chapter list sorted by ascending unique start_page, the resolver
\* returns for every page the number of the chapter with the greatest
\* start_page <= page, None when there is none, and the first page of a
\* chapter resolves to that chapter.
C1_ResolveSorted ==
    SortedByStartPage(chapters) =>
        /\ (pc = "merged" /\ query # None) =>
               loc[1].chapter_num \in ReferenceChapter(chapters, query[1])
        /\ \A i \in 1..Len(chapters) :
               _find_chapter_section(chapters, chapters[i].start_page).chapter_num
                   = Some(chapters[i].number)

\* a row on the first page of the second of two sorted chapters is resolved to
\* the second chapter
C1_Witness ==
    /\ pc = "merged"
    /\ Len(chapters) = 2
    /\ SortedByStartPage(chapters)
    /\ chapters[1].number # chapters[2].number
    /\ query = Some(chapters[2].start_page)
    /\ loc[1].chapter_num = Some(chapters[2].number)

\* the section numbers the rule allows for page p: of the sections of the
\* returned chapter only, one with the greatest page <= p; None if it has none
ReferenceSection(chs, p) ==
    IF Nearest(chs, p) = {} THEN {None}
    ELSE UNION {
        LET secs == chs[i].sections
            at == {k \in 1..Len(secs) : secs[k].page <= p}
        IN  IF at = {} THEN {None}
            ELSE {Some(secs[k].number) :
                     k \in {x \in at : \A y \in at : secs[y].page <= secs[x].page}}
        : i \in Nearest(chs, p)}

\* C2: on a sorted chapter list (here: of distinct chapter numbers) the
\* section_number returned is that of the section with the greatest page <= p
\* among the sections of the returned chapter only, and None when the returned
\* chapter has no such section.
C2_SectionOfReturnedChapter ==
    (pc = "merged" /\ query # None
        /\ SortedByStartPage(chapters) /\ UniqueChapters(chapters)) =>
        loc[1].section_num \in ReferenceSection(chapters, query[1])

\* C3: a page smaller than every chapter's start_page (every page, for the
\* empty list) resolves to (None, None).
C3_AbsentBeforeFirstChapter ==
    (pc = "merged" /\ query # None
        /\ \A i \in 1..Len(chapters) : query[1] < chapters[i].start_page) =>
        loc[1] = [chapter_num |-> None, section_num |-> None]

\* a row on a page before both chapters of a list is resolved to (None, None)
C3_Witness ==
    /\ pc = "merged"
    /\ Len(chapters) = 2
    /\ query # None
    /\ \A i \in 1..Len(chapters) : query[1] < chapters[i].start_page
    /\ loc = Some([chapter_num |-> None, section_num |-> None])

\* C4: after _extract_chapters (here: of a TOC whose chapters are distinct in
\* number and start_page) every stored section is under the chapter whose
\* start_page is the greatest value <= the section's page.
C4_SectionUnderNearestChapter ==
    (pc # "extract" /\ UniqueChapters(chapters)) =>
        \A i \in 1..Len(chapters) : \A k \in 1..Len(chapters[i].sections) :
            i \in Nearest(chapters, chapters[i].sections[k].page)

\* C5: after structure parsing neither self.chapters nor the chapters table
\* holds two chapters with the same number or the same start_page.
C5_ChaptersUnique ==
    pc = "merged" => UniqueChapters(chapters) /\ UniqueChapters(db_chapters)

-----------------------------------------------------------------------------
(* Claims about _store_medical_data *)

\* the first record of that name handed to _store_medical_data
FirstStored(name) ==
    stored[CHOOSE k \in 1..Len(stored) :
               /\ stored[k].name = name
               /\ \A j \in 1..(k - 1) : stored[j].name # name]

\* C9: keep-first. After any sequence of stored conditions, over any number of
\* calls on one database, the conditions table holds exactly one row for every
\* name stored, and the row's icd10_code, clinical_features, investigations,
\* treatment and page_number are those of the first record stored with the name.
C9_KeepFirst ==
    /\ \A i, j \in 1..Len(db_conditions) :
           db_conditions[i].name = db_conditions[j].name => i = j
    /\ \A k \in 1..Len(stored) :
           \E i \in 1..Len(db_conditions) :
               LET r == db_conditions[i]
                   c == FirstStored(stored[k].name)
               IN  /\ r.name = c.name
                   /\ r.icd10_code = c.icd_code
                   /\ r.clinical_features = c.clinical_features
                   /\ r.investigations = c.investigations
                   /\ r.treatment = c.treatment
                   /\ r.page_number = c.page_number

\* two different records of one name were stored, the second in a later call
\* than the first, and the table holds one row
C9_Witness ==
    /\ Len(stored) = 2
    /\ stored[1].name = stored[2].name
    /\ stored[1] # stored[2]
    /\ Len(db_conditions) = 1
    /\ Len(db_search_index) = 3
    /\ db_search_index[2].content_type = "medication"

\* C10: the search_index row written for a condition record carries the id of
\* the conditions row of that name, also when the record's insert was ignored.
C10_ExistingIdentifier ==
    \A k \in 1..Len(db_search_index) :
        db_search_index[k].content_type = "condition" =>
            db_search_index[k].content_id
                = select_id(db_conditions, db_search_index[k].title)

\* the records dealt with so far of a kind whose writes went through
Succeeded(kind) == {k \in 1..Len(st_done) : st_done[k].kind = kind /\ st_done[k].ok}

\* the records dealt with so far that failed, by their index
Failed == {k \in 1..Len(st_done) : ~st_done[k].ok}

\* C11: a storage failure on a record is logged and the record is skipped;
\* the batch is not aborted. The records are dealt with in the order they were
\* handed over, one warning is logged for each one that failed, a call ends
\* only when every record handed over has been attempted, and the tables hold
\* a row for every record whose writes went through.
C11_SkipAndContinue ==
    /\ Len(st_done) <= Len(st_given)
    /\ \A k \in 1..Len(st_done) :
           /\ st_done[k].kind = st_given[k].kind
           /\ st_done[k].record = st_given[k].record
    /\ st_pc = "idle" => Len(st_done) = Len(st_given)
    /\ Len(st_log) = Cardinality(Failed)
    /\ \A k \in Failed :
           st_log[Cardinality({j \in Failed : j <= k})]
               = warning(st_done[k].kind, st_done[k].record)
    /\ \A k \in Succeeded("condition") :
           \E i \in 1..Len(db_conditions) : db_conditions[i].name = st_done[k].record.name
    /\ Cardinality(Succeeded("treatment")) = Len(db_treatments)
    /\ \A k \in Succeeded("treatment") :
           \E i \in 1..Len(db_treatments) :
               db_treatments[i] = [id |-> i] @@ st_done[k].record
    /\ \A k \in Succeeded("medication") :
           \E i \in 1..Len(db_medications) :
               /\ db_medications[i].generic_name = st_done[k].record.name
               /\ db_medications[i].page_number = st_done[k].record.page_number
               /\ \E j \in 1..Len(db_search_index) :
                      /\ db_search_index[j].content_type = "medication"
                      /\ db_search_index[j].content_id = db_medications[i].id

\* a call has ended in which a condition failed, the condition after it was
\* stored, and a medication after both was stored
C11_Witness ==
    /\ st_pc = "idle"
    /\ Len(st_done) = 3
    /\ st_done[1].kind = "condition" /\ ~st_done[1].ok
    /\ st_done[2].kind = "condition" /\ st_done[2].ok
    /\ st_done[3].kind = "medication" /\ st_done[3].ok
    /\ Len(st_log) = 1
    /\ Len(db_medications) = 1

-----------------------------------------------------------------------------
(* Claims about extract_medical_content *)

\* the conditions found so far on the pages up to page p, by their index
FoundUpTo(p) == {k \in 1..Len(conditions) : conditions[k].page_number <= p}

\* the conditions found so far on page p, by their index
FoundOn(p) == {k \in 1..Len(conditions) : conditions[k].page_number = p}

\* C6: the pages are scanned in strictly increasing page order; every
\* treatment found on page p carries the name of the last condition found on
\* the pages up to p; and the context slot changes only on a page that yields
\* a condition (to the last condition of that page).
C6_ContextInheritance ==
    /\ \A i, j \in 1..Len(scanned) :
           i < j => scanned[i].page_number < scanned[j].page_number
    /\ \A t \in 1..Len(treatments) :
           FoundUpTo(treatments[t].page_number) # {} =>
               treatments[t].condition_name
                   = conditions[Greatest(FoundUpTo(treatments[t].page_number))].name
    /\ \A i \in 1..Len(scanned) :
           scanned[i].context # (IF i = 1 THEN None ELSE scanned[i - 1].context) =>
               /\ FoundOn(scanned[i].page_number) # {}
               /\ scanned[i].context
                      = Some(conditions[Greatest(FoundOn(scanned[i].page_number))])

\* a page gave two conditions, and a treatment of a later page that gave none
\* carries the name of the second
C6_Witness ==
    \E t \in 1..Len(treatments) : \E k \in 1..Len(conditions) :
        /\ k > 1
        /\ conditions[k - 1].page_number = conditions[k].page_number
        /\ conditions[k - 1].name # conditions[k].name
        /\ conditions[k].page_number < treatments[t].page_number
        /\ FoundOn(treatments[t].page_number) = {}
        /\ treatments[t].condition_name = conditions[k].name

\* a step reads a page
PageRead == scanned' # scanned

\* the page a step reads
ReadPage == scanned'[Len(scanned')]

\* the treatments a step adds
NewTreatments == SubSeq(treatments', Len(treatments) + 1, Len(treatments'))

\* the matches of the treatment patterns in a text, as pairs of the pattern and
\* the number of the match
Matches(text) ==
    UNION {{<<k, j>> : j \in 1..Len(treatment_finditer(text, k, 1))} :
              k \in 1..Len(treatment_patterns)}

\* the matches whose stripped text is longer than 5 characters
LongMatches(text) ==
    LET long(groups) == {j \in 1..Len(groups) : Len(strip(groups[j])) > MinTreatmentLen}
    IN  UNION {{<<k, j>> : j \in long(treatment_finditer(text, k, 1))} :
                  k \in 1..Len(treatment_patterns)}

\* C7 as stated: on every page read, each match of a treatment pattern becomes
\* a Treatment record tagged with the current condition (None or empty before
\* the first condition); no match is dropped for coming before the first
\* condition.
C7_EveryMatchRecorded ==
    [][PageRead =>
          /\ Len(NewTreatments) = Cardinality(Matches(ReadPage.text))
          /\ \A i \in 1..Len(NewTreatments) :
                 /\ NewTreatments[i].page_number = ReadPage.page_number
                 /\ \/ NewTreatments[i].condition_name = context_name(ReadPage.context)
                    \/ ReadPage.context = None /\ NewTreatments[i].condition_name = <<>>
      ]_vars

\* C7 as the code has it: on a page read once a condition has been found (on
\* that page or before), each match of a treatment pattern whose stripped text
\* is longer than 5 characters becomes a Treatment record tagged with the
\* current condition's name; a page read before the first condition gives no
\* Treatment record.
C7_LongMatchesUnderContext ==
    [][PageRead =>
          IF ReadPage.context = None
          THEN treatments' = treatments
          ELSE /\ Len(NewTreatments) = Cardinality(LongMatches(ReadPage.text))
               /\ \A i \in 1..Len(NewTreatments) :
                      /\ NewTreatments[i].page_number = ReadPage.page_number
                      /\ NewTreatments[i].condition_name = ReadPage.context[1].name
      ]_vars

\* the treatments found so far on page p, by their index
TreatmentsOn(p) == {t \in 1..Len(treatments) : treatments[t].page_number = p}

\* a page with a match longer than 5 characters was read before any condition
\* and gave no treatment; a later page, read under a condition, has a match
\* that was dropped for its length and one that became a treatment
C7_Witness ==
    \E i, j \in 1..Len(scanned) :
        /\ i < j
        /\ scanned[i].context = None
        /\ LongMatches(scanned[i].text) # {}
        /\ TreatmentsOn(scanned[i].page_number) = {}
        /\ scanned[j].context # None
        /\ LongMatches(scanned[j].text) # {}
        /\ LongMatches(scanned[j].text) # Matches(scanned[j].text)
        /\ Cardinality(TreatmentsOn(scanned[j].page_number))
               = Cardinality(LongMatches(scanned[j].text))
        /\ \A t \in TreatmentsOn(scanned[j].page_number) :
               treatments[t].condition_name = scanned[j].context[1].name

\* the lines of a text that start with the literal marker, by their number
LinesWith(text, marker) ==
    LET of(lines) == {l \in 1..Len(lines) : At(lines[l], 1, marker)}
    IN  of(split(text))

\* the text that follows a marker of n characters on a line, after the colons
\* and blanks that follow the marker
AfterMarker(line, n) ==
    SubSeq(line, RunEnd(line, n + 1, SepChars), Len(line))

\* a text up to its first full stop
UpToStop(s) == SubSeq(s, 1, RunEndNot(s, 1, {"."}) - 1)

\* the index at which line l of a text starts
LineStart(text, l) ==
    LET after(breaks) == Least({i \in {1} \cup {j + 1 : j \in breaks} :
                                   Cardinality({j \in breaks : j < i}) = l - 1})
    IN  after({j \in 1..Len(text) : text[j] = "\n"})

\* what comes before index i of a text is a First-line marker followed by
\* nothing but colons and whitespace
AfterEmptyMarker(text, i) ==
    LET ends(q) == /\ q >= 10
                   /\ AtCI(text, q - 9, <<"f","i","r","s","t">>)
                   /\ text[q - 4] \in {"-", " "}
                   /\ AtCI(text, q - 3, <<"l","i","n","e">>)
    IN  ends(Greatest({0} \cup {q \in 1..(i - 1) : text[q] \notin SepChars}))

\* the text has none of the words the treatment patterns start with
NoMarker(text) ==
    \A k \in 1..Len(treatment_markers) : \A i \in 1..Len(text) :
        ~AtCI(text, i, treatment_markers[k].word)

\* a Treatment record of the page with this condition and this first line and
\* nothing else
FirstLineRecord(rs, page_number, condition_name, first_line) ==
    \E i \in 1..Len(rs) :
        rs[i] = [MedicalTreatment(condition_name, page_number)
                    EXCEPT !.first_line = first_line]

\* the stripped text that follows a marker of n characters on a line, up to
\* the first full stop
MarkerText(line, n) == strip(UpToStop(AfterMarker(line, n)))

\* C8 as stated: a page read under the current condition C that has a line
\* introduced by "Treatment:" gives a Treatment record with condition_name C
\* and first_line the text that follows the marker.
C8_TreatmentMarker ==
    [][(PageRead /\ ReadPage.context # None) =>
          \A page \in {ReadPage} : \A lines \in {split(page.text)} :
              \A l \in 1..Len(lines) : \A line \in {lines[l]} :
                  At(line, 1, <<"T","r","e","a","t","m","e","n","t",":">>) =>
                      \A following \in {strip(AfterMarker(line, 9))} :
                          FirstLineRecord(NewTreatments, page.page_number,
                                          page.context[1].name, following)
      ]_vars

\* C8 as the code has it: the marker is "First-line:", and the group ends at
\* the first full stop. A page read under the current condition C that has a
\* line starting with "First-line:" (not itself the text of an empty First-line
\* marker before it) gives a Treatment record with condition_name C and
\* first_line the text that follows the marker up to the first full stop or
\* the end of the line, stripped, when that text is longer than 5 characters;
\* and a page whose only marker is "Treatment:" gives no Treatment record.
C8_FirstLineMarker ==
    [][(PageRead /\ ReadPage.context # None) =>
          \A page \in {ReadPage} : \A lines \in {split(page.text)} :
              /\ \A l \in 1..Len(lines) : \A line \in {lines[l]} :
                     (/\ At(line, 1, <<"F","i","r","s","t","-","l","i","n","e",":">>)
                      /\ ~AfterEmptyMarker(page.text, LineStart(page.text, l)))
                     => \A following \in {MarkerText(line, 10)} :
                            Len(following) > MinTreatmentLen =>
                                FirstLineRecord(NewTreatments, page.page_number,
                                                page.context[1].name, following)
              /\ (/\ \E l \in 1..Len(lines) : At(lines[l], 1, <<"T","r","e","a","t","m","e","n","t",":">>)
                  /\ NoMarker(page.text))
                 => treatments' = treatments
      ]_vars

\* under the condition Severe Malaria the line
\* "First-line: Artesunate 2.4mg/kg IV" gave the first line "Artesunate 2", and
\* the page "Treatment: Artesunate 2.4mg/kg IV" read after it gave no treatment
C8_Witness ==
    /\ Len(scanned) = 2
    /\ LinesWith(scanned[1].text, <<"F","i","r","s","t","-","l","i","n","e",":"," ","A","r","t","e","s","u","n","a","t","e"," ","2",".","4","m","g","/","k","g"," ","I","V">>) # {}
    /\ scanned[1].context # None
    /\ scanned[1].context[1].name = <<"S","e","v","e","r","e"," ","M","a","l","a","r","i","a">>
    /\ LinesWith(scanned[2].text, <<"T","r","e","a","t","m","e","n","t",":"," ","A","r","t","e","s","u","n","a","t","e"," ","2",".","4","m","g","/","k","g"," ","I","V">>) # {}
    /\ scanned[2].context = scanned[1].context
    /\ treatments = << [MedicalTreatment(<<"S","e","v","e","r","e"," ","M","a","l","a","r","i","a">>, scanned[1].page_number)
                           EXCEPT !.first_line = <<"A","r","t","e","s","u","n","a","t","e"," ","2">>] >>

-----------------------------------------------------------------------------
(* Claims about the merge and the chunks of build_complete_database *)

\* the write of this row into this table is the one that raised
FailedWrite(table, row) ==
    bd_failed # None /\ bd_failed[1].table = table /\ bd_failed[1].row = row

\* C12: skip and log in the RAG pipeline builder too. A write failure on one
\* record skips only that record: once a write has failed, every other row of
\* the OCR database still gets its conditions_enhanced or medications_enhanced
\* row, and every other row with a text still gets its chunks.
C12_SkipOnlyFailedRecord ==
    bd_failed # None =>
        /\ \A k \in 1..Len(ocr_conditions) :
               \/ FailedWrite("conditions_enhanced", ocr_conditions[k])
               \/ \E i \in 1..Len(db_conditions_enhanced) :
                      db_conditions_enhanced[i].name = ocr_conditions[k].name
        /\ \A k \in 1..Len(ocr_medications) :
               \/ FailedWrite("medications_enhanced", ocr_medications[k])
               \/ \E i \in 1..Len(db_medications_enhanced) :
                      db_medications_enhanced[i].generic_name
                          = ocr_medications[k].generic_name
        /\ \A i \in 1..Len(db_medications_enhanced) :
               \/ FailedWrite("content_chunks", db_medications_enhanced[i])
               \/ \E c \in 1..Len(db_content_chunks) :
                      /\ db_content_chunks[c].chunk_type = "medication"
                      /\ db_content_chunks[c].source_id = db_medications_enhanced[i].id

\* a step of _create_content_chunks takes a row of its loop and goes on
RowChunked == bd_todo # <<>> /\ bd_todo' = Tail(bd_todo) /\ bd_pc' = bd_pc

\* the chunks a step adds
NewChunks == SubSeq(db_content_chunks', Len(db_content_chunks) + 1, Len(db_content_chunks'))

\* the three text columns of a conditions_enhanced row a chunk is made of
ChunkFields == {"treatment", "clinical_features", "investigations"}

\* a text column that is neither NULL nor the empty text
NonEmpty(field) == field # None /\ field[1] # <<>>

\* C13: one pass over a condition row emits exactly one chunk for each of its
\* non-empty columns among treatment, clinical_features and investigations,
\* and none for an empty or NULL one; the chunks of a row have pairwise
\* distinct chunk_type values, the row's id as source_id and the row's
\* reference_citation. One pass over a medication row emits exactly one chunk,
\* of type medication.
C13_ChunksPerRow ==
    [][RowChunked =>
          \A row \in {Head(bd_todo)} : \A new \in {NewChunks} :
              /\ bd_pc = "chunk_conditions" =>
                     /\ Len(new) = Cardinality({f \in ChunkFields : NonEmpty(row[f])})
                     /\ \A f \in ChunkFields :
                            NonEmpty(row[f]) <=> \E i \in 1..Len(new) : new[i].chunk_type = f
                     /\ \A i, j \in 1..Len(new) :
                            new[i].chunk_type = new[j].chunk_type => i = j
              /\ bd_pc = "chunk_medications" =>
                     /\ Len(new) = 1
                     /\ new[1].chunk_type = "medication"
              /\ \A i \in 1..Len(new) :
                     /\ new[i].source_id = row.id
                     /\ new[i].reference_citation = row.reference_citation
      ]_vars

\* the chunks of a type other than medication made of the condition row id
ConditionChunks(id) ==
    {c \in 1..Len(db_content_chunks) :
        /\ db_content_chunks[c].source_id = id
        /\ db_content_chunks[c].chunk_type # "medication"}

\* after one pass, a condition with three texts has three chunks, and one
\* whose only text is empty has none
C13_Witness ==
    /\ bd_pc = "chunked"
    /\ chunk_runs = 1
    /\ \E i, j \in 1..Len(db_conditions_enhanced) :
           /\ \A f \in ChunkFields : NonEmpty(db_conditions_enhanced[i][f])
           /\ Cardinality(ConditionChunks(db_conditions_enhanced[i].id)) = 3
           /\ db_conditions_enhanced[j].treatment = Some(<<>>)
           /\ db_conditions_enhanced[j].clinical_features = None
           /\ ConditionChunks(db_conditions_enhanced[j].id) = {}

\* C14: every row of content_chunks, of every chunk_type, the medication
\* chunks included, has a content of at most 2000 characters, however long
\* the columns it is made of are.
C14_ContentWithinLimit ==
    \A c \in 1..Len(db_content_chunks) :
        Len(db_content_chunks[c].content) <= ChunkLimit

\* C15: the reference_citation of every chunk, of a condition or of a
\* medication, is not empty; it is "Chapter n, Section s, Page p" when the
\* resolver gave a section for the page of the entity, and "Chapter n,
\* Page p" only when it gave none.
C15_CitationNamesSection ==
    \A c \in 1..Len(db_content_chunks) : \A chunk \in {db_content_chunks[c]} :
        /\ chunk.reference_citation # <<>>
        /\ chunk.reference_citation =
               IF NonEmpty(chunk.section_number)
               THEN section_reference(chunk.chapter_number, chunk.section_number,
                                      chunk.page_number)
               ELSE page_reference(chunk.chapter_number, chunk.page_number)

\* the page lies before the first page of every chapter
BeforeEveryChapter(page_no) ==
    \A i \in 1..Len(chapters) : page_no < chapters[i].start_page

\* the page of an OCR row in the merged tables: 0 for a missing one
PageOrZero(page_number) ==
    IF page_number = None \/ page_number = Some(0) THEN 0 ELSE page_number[1]

NoChapterCitation(page_no) ==
    <<"C","h","a","p","t","e","r"," ","N","o","n","e",","," ","P","a","g","e"," ">> \o Str(page_no)

\* a row or a chunk of an entity that lies before every chapter
Unplaced(row) ==
    BeforeEveryChapter(row.page_number) =>
        /\ row.chapter_number = None
        /\ row.section_number = None
        /\ row.reference_citation = NoChapterCitation(row.page_number)

\* the merge is over
Merged == bd_pc \in {"merged", "chunk_conditions", "chunk_medications", "chunked"}

\* C16: an entity whose page lies before the start of every chapter, or whose
\* page is missing and is taken as 0, still gets its enhanced row and its
\* chunks; they have no chapter_number and no section_number, an empty
\* chapter_title, and the reference_citation "Chapter None, Page p".
C16_BeforeEveryChapter ==
    /\ Merged => /\ Len(db_conditions_enhanced) = Len(ocr_conditions)
                 /\ Len(db_medications_enhanced) = Len(ocr_medications)
    /\ \A k \in 1..Len(db_conditions_enhanced) :
           /\ db_conditions_enhanced[k].page_number = PageOrZero(ocr_conditions[k].page_number)
           /\ db_conditions_enhanced[k].name = ocr_conditions[k].name
           /\ Unplaced(db_conditions_enhanced[k])
    /\ \A k \in 1..Len(db_medications_enhanced) :
           /\ db_medications_enhanced[k].page_number = PageOrZero(ocr_medications[k].page_number)
           /\ db_medications_enhanced[k].generic_name = ocr_medications[k].generic_name
           /\ Unplaced(db_medications_enhanced[k])
    /\ \A c \in 1..Len(db_content_chunks) :
           /\ Unplaced(db_content_chunks[c])
           /\ BeforeEveryChapter(db_content_chunks[c].page_number) =>
                  db_content_chunks[c].chapter_title = <<>>
    /\ bd_pc = "chunked" =>
           /\ \A k \in 1..Len(db_medications_enhanced) :
                  \E c \in 1..Len(db_content_chunks) :
                      /\ db_content_chunks[c].chunk_type = "medication"
                      /\ db_content_chunks[c].source_id = db_medications_enhanced[k].id
                      /\ db_content_chunks[c].page_number = db_medications_enhanced[k].page_number
           /\ \A k \in 1..Len(db_conditions_enhanced) : \A f \in ChunkFields :
                  NonEmpty(db_conditions_enhanced[k][f]) =>
                      \E c \in 1..Len(db_content_chunks) :
                          /\ db_content_chunks[c].chunk_type = f
                          /\ db_content_chunks[c].source_id = db_conditions_enhanced[k].id
                          /\ db_content_chunks[c].page_number = db_conditions_enhanced[k].page_number

\* with chapters read, a condition of page 9 and a medication without a page
\* have their chunks
C16_Witness ==
    /\ bd_pc = "chunked"
    /\ chapters # <<>>
    /\ \E c, d \in 1..Len(db_content_chunks) :
           /\ db_content_chunks[c].chunk_type = "treatment"
           /\ db_content_chunks[c].page_number = 9
           /\ BeforeEveryChapter(9)
           /\ db_content_chunks[c].reference_citation = <<"C","h","a","p","t","e","r"," ","N","o","n","e",","," ","P","a","g","e"," ","9">>
           /\ db_content_chunks[d].chunk_type = "medication"
           /\ db_content_chunks[d].page_number = 0
           /\ db_content_chunks[d].chapter_number = None
    /\ \E k \in 1..Len(ocr_medications) : ocr_medications[k].page_number = None

\* the (chunk_type, source_id) pairs one run of _create_content_chunks makes
PairsOfOneRun ==
    UNION {{<<f, db_conditions_enhanced[k].id>> :
               f \in {g \in ChunkFields : NonEmpty(db_conditions_enhanced[k][g])}} :
           k \in 1..Len(db_conditions_enhanced)}
    \cup
    {<<"medication", db_medications_enhanced[k].id>> : k \in 1..Len(db_medications_enhanced)}

\* the rows of content_chunks of one (chunk_type, source_id) pair
RowsOfPair(pair) ==
    {c \in 1..Len(db_content_chunks) :
        <<db_content_chunks[c].chunk_type, db_content_chunks[c].source_id>> = pair}

\* no run of _create_content_chunks is under way
BetweenRuns == bd_pc \in {"merged", "chunked"}

\* C17: _create_content_chunks is not idempotent: after k runs over the same
\* conditions_enhanced and medications_enhanced rows, content_chunks not
\* cleared in between, there are exactly k rows for every (chunk_type,
\* source_id) pair one run makes, and no other row; no key keeps the
\* duplicates out.
C17_RunsMultiplyChunks ==
    BetweenRuns =>
        /\ \A pair \in PairsOfOneRun : Cardinality(RowsOfPair(pair)) = chunk_runs
        /\ Len(db_content_chunks) = chunk_runs * Cardinality(PairsOfOneRun)
        /\ \A c, d \in 1..Len(db_content_chunks) :
               db_content_chunks[c].id = db_content_chunks[d].id => c = d

\* two runs have left two rows of one pair
C17_Witness ==
    /\ bd_pc = "chunked"
    /\ chunk_runs = 2
    /\ \E c, d \in 1..Len(db_content_chunks) :
           /\ c # d
           /\ db_content_chunks[c].chunk_type = db_content_chunks[d].chunk_type
           /\ db_content_chunks[c].source_id = db_content_chunks[d].source_id
           /\ db_content_chunks[c].content = db_content_chunks[d].content

-----------------------------------------------------------------------------
(* Claims about generate_all_embeddings *)

\* the two views of the database: what the connection sees and what is
\* committed
EmbedViews ==
    {[content_chunks |-> db_content_chunks, embeddings |-> db_embeddings], db_durable}

\* no chunk id has two rows in an embeddings table
OneRowPerChunk(embeddings) ==
    \A i, j \in 1..Len(embeddings) :
        embeddings[i].chunk_id = embeddings[j].chunk_id => i = j

\* the chunks with an embedding are those with a row in the embeddings table,
\* and the embedding is that of the content
EmbeddedOnce(view) ==
    /\ OneRowPerChunk(view.embeddings)
    /\ \A c \in 1..Len(view.content_chunks) : \A chunk \in {view.content_chunks[c]} :
           /\ chunk.embedding # None <=>
                  \E e \in 1..Len(view.embeddings) : view.embeddings[e].chunk_id = chunk.id
           /\ chunk.embedding \in {None, Some(encode(chunk.content))}

\* a step of generate_all_embeddings leaves every column of every chunk but
\* embedding as it is, and leaves a committed embedding as it is
OnlyEmbeddingChanges(before, after) ==
    /\ Len(after) = Len(before)
    /\ \A c \in 1..Len(before) :
           /\ [after[c] EXCEPT !.embedding = None] = [before[c] EXCEPT !.embedding = None]
           /\ db_durable.content_chunks[c].embedding # None =>
                  after[c].embedding = db_durable.content_chunks[c].embedding

\* C18: the embedding of every chunk starts NULL and is populated exactly
\* once. Over any number of runs of generate_all_embeddings on one database,
\* a rerun after a run that stopped between two batch commits included, a
\* chunk whose embedding is not NULL is never written again, the embeddings
\* table has at most one row per chunk_id, after a complete run every chunk
\* has an embedding, and no other column of a chunk is changed.
C18_EmbeddedExactlyOnce ==
    /\ [](em_pc = "idle" =>
            \A c \in 1..Len(db_content_chunks) : db_content_chunks[c].embedding = None)
    /\ [](\A view \in EmbedViews : EmbeddedOnce(view))
    /\ [](em_pc = "complete" =>
            /\ db_durable.content_chunks = db_content_chunks
            /\ \A c \in 1..Len(db_content_chunks) : db_content_chunks[c].embedding # None)
    /\ [][em_pc # "none" =>
            /\ OnlyEmbeddingChanges(db_content_chunks, db_content_chunks')
            /\ OnlyEmbeddingChanges(db_durable.content_chunks, db_durable'.content_chunks)
            /\ \A e \in 1..Len(db_durable.embeddings) :
                   /\ e <= Len(db_embeddings') /\ db_embeddings'[e] = db_durable.embeddings[e]
                   /\ db_durable'.embeddings[e] = db_durable.embeddings[e]
         ]_vars

\* a second run has completed after a first one that stopped with one batch
\* committed: it fetched only the chunks the first left without an embedding
C18_Witness ==
    /\ em_pc = "complete"
    /\ em_runs = 2
    /\ Len(db_content_chunks) > 2 * BatchSize
    /\ Len(em_chunks) = Len(db_content_chunks) - BatchSize
    /\ Len(db_durable.embeddings) = Len(db_content_chunks)
    /\ \A c \in 1..Len(db_content_chunks) : db_durable.content_chunks[c].embedding # None

-----------------------------------------------------------------------------
(* Claims about the validation of condition and medication names *)

\* the conditions a step adds
NewConditions == SubSeq(conditions', Len(conditions) + 1, Len(conditions'))

\* the medications a step adds
NewMedications == SubSeq(medications', Len(medications) + 1, Len(medications'))

\* a line of 5 to 100 characters that no reject pattern matches
AcceptedLine(line) ==
    /\ Len(line) >= 5
    /\ Len(line) <= 100
    /\ ~skip_line(line)

\* the name is the first group, stripped, of a condition pattern on the line
NamedOn(line, name) ==
    \E k \in 1..ConditionPatterns : \A match \in {condition_match(line, k)} :
        match # None /\ strip(match[1].name) = name

\* what the validator asks of a condition name
ValidConditionName(name) ==
    /\ Len(name) >= 5
    /\ Len(name) <= 60
    /\ \A k \in 1..Len(organisation_words) : ~Contains(name, organisation_words[k])
    /\ ~Is(name, 1, DigitChars)
    /\ ~has_year(name)
    /\ \/ \E k \in 1..Len(medical_indicators) : Contains(lower(name), medical_indicators[k])
       \/ Is(name, 1, UpperChars) /\ word_count(name) <= 4

\* C19: every condition _extract_conditions_from_page emits comes from a
\* line of 5 to 100 characters that matches no reject pattern, and its name
\* passes the validator: 5 to 60 characters, no institutional keyword, no
\* digit at the start, no bare 4-digit year, and a medical-term fragment or a
\* capital at the start with at most 4 words. A candidate that fails one of
\* these is never emitted.
C19_ConditionsValidated ==
    [][PageRead =>
          \A page \in {ReadPage} : \A lines \in {split(page.text)} :
          \A new \in {NewConditions} :
              \A c \in 1..Len(new) :
                  /\ new[c].page_number = page.page_number
                  /\ ValidConditionName(new[c].name)
                  /\ \E l \in 1..Len(lines) : \A line \in {strip(lines[l])} :
                         AcceptedLine(line) /\ NamedOn(line, new[c].name)
      ]_vars

\* the lines of a text that give a name the validator turns down
TurnedDown(text) ==
    {l \in 1..Len(split(text)) :
        \E k \in 1..ConditionPatterns : \A match \in {condition_match(strip(split(text)[l]), k)} :
            match # None /\ ~ValidConditionName(strip(match[1].name))}

\* a page gave a condition, and another page whose line gives a name with an
\* institutional keyword gave none
C19_Witness ==
    \E i, j \in 1..Len(scanned) :
        /\ FoundOn(scanned[i].page_number) # {}
        /\ TurnedDown(scanned[j].text) # {}
        /\ \A l \in TurnedDown(scanned[j].text) : AcceptedLine(strip(split(scanned[j].text)[l]))
        /\ FoundOn(scanned[j].page_number) = {}

\* the names the medication patterns match in a text: the first group of
\* every match, stripped
MedicationCandidates(text) ==
    UNION {{strip(medication_finditer(text, k, 1)[j].name) :
               j \in 1..Len(medication_finditer(text, k, 1))} :
           k \in 1..MedicationPatterns}

\* C20: _is_valid_medication_name accepts a name if and only if it starts
\* with a capital letter, has 3 to 30 characters and is not equal to one of
\* the stop-words; a name that only has a stop-word inside it, as a drug name
\* beginning with "The" has, is accepted.
C20_StopWordEquality ==
    [][PageRead =>
          \A page \in {ReadPage} : \A new \in {NewMedications} :
          \A name \in MedicationCandidates(page.text) :
              (\E d \in 1..Len(new) : new[d].name = name)
                  <=> /\ Is(name, 1, UpperChars)
                      /\ Len(name) >= 3
                      /\ Len(name) <= 30
                      /\ \A w \in 1..Len(skip_words) : name # skip_words[w]
      ]_vars

-----------------------------------------------------------------------------
(* Claims about _extract_section_content and _extract_clinical_features *)

\* the keyword occurs in the text at index i, followed by a colon or a space
KeywordAt(text, i, keyword) ==
    AtCI(text, i, keyword) /\ Is(text, i + Len(keyword), SepChars)

\* the keywords of a list that occur in the text with a separator after them
Matching(text, keywords) ==
    {k \in 1..Len(keywords) : \E i \in 1..Len(text) : KeywordAt(text, i, keywords[k])}

\* the index after the first matching keyword of the list and its separators
AfterKeyword(text, keywords) ==
    LET after(keyword) ==
            RunEnd(text, Least({i \in 1..Len(text) : KeywordAt(text, i, keyword)})
                             + Len(keyword), SepChars)
    IN  after(keywords[Least(Matching(text, keywords))])

\* the index of the next keyword of any section type from index s on, and
\* the index after the text if there is none
NextKeyword(text, s) ==
    Least({x \in s..Len(text) : \E k \in 1..Len(all_keywords) : AtCI(text, x, all_keywords[k])}
              \cup {Len(text) + 1})

\* the text from the first matching keyword to the next keyword of any type
UpToNextKeyword(text, keywords) ==
    IF Matching(text, keywords) = {} THEN <<>>
    ELSE LET from(s) == SubSeq(text, s, NextKeyword(text, s) - 1)
         IN  from(AfterKeyword(text, keywords))

\* C21: for every section type and text, _extract_section_content takes the
\* text that follows the first matching keyword of the type only up to the
\* next keyword of any section type, wherever in the text that keyword is, or
\* up to the end of the text when no keyword follows; nothing after a
\* following keyword is in the content.
C21_StopsAtNextKeyword ==
    \A call \in {fx_call} :
        (/\ call # None
         /\ call[1].function = "_extract_section_content"
         /\ call[1].section_type \in DOMAIN medical_sections)
        => call[1].result =
               truncate(normalize(strip(UpToNextKeyword(
                   call[1].text, medical_sections[call[1].section_type]))), 300)

\* no two whitespace characters follow one another
NoWhitespaceRun(s) ==
    \A i \in 1..(Len(s) - 1) : ~(s[i] \in SpaceChars /\ s[i + 1] \in SpaceChars)

\* a keyword of the list occurs somewhere in the text, in any case
Occurs(text, keywords) ==
    \E k \in 1..Len(keywords) : \E i \in 1..Len(text) : AtCI(text, i, keywords[k])

\* C27: for every text _extract_section_content returns at most 300
\* characters and _extract_clinical_features at most 500; what they return
\* has no run of consecutive whitespace; and each returns the empty string
\* when no keyword of the type asked for occurs in the text, or when the
\* section type is unknown.
C27_CappedAndCollapsed ==
    \A call \in {fx_call} :
        call # None =>
            /\ call[1].function = "_extract_section_content" =>
                   /\ Len(call[1].result) <= 300
                   /\ call[1].section_type \notin DOMAIN medical_sections =>
                          call[1].result = <<>>
                   /\ (/\ call[1].section_type \in DOMAIN medical_sections
                       /\ ~Occurs(call[1].text, medical_sections[call[1].section_type]))
                      => call[1].result = <<>>
            /\ call[1].function = "_extract_clinical_features" =>
                   /\ Len(call[1].result) <= 500
                   /\ ~Occurs(call[1].text, cf_keywords) => call[1].result = <<>>
            /\ NoWhitespaceRun(call[1].result)

\* a text with a run of blanks after the keyword was cut to 300 characters
C27_Witness ==
    /\ fx_call # None
    /\ fx_call[1].function = "_extract_section_content"
    /\ Len(fx_call[1].result) = 300
    /\ ~NoWhitespaceRun(fx_call[1].text)
    /\ \E i \in 1..Len(fx_call[1].result) : fx_call[1].result[i] = " "

-----------------------------------------------------------------------------
(* Claims about the page range of extract_medical_content *)

\* the page loop of extract_medical_content was entered and is over
ScanOver == sc_pc \in {"store", "done"} /\ start_page < total_pages

\* C22: extract_medical_content(start_page, max_pages) processes exactly
\* max_pages pages, the pages start_page .. start_page + max_pages - 1 in
\* 1-indexed numbering, each once, whenever the document has that many pages
\* from start_page on; stats["pages_processed"] is then max_pages.
C22_ExactlyMaxPages ==
    (ScanOver /\ total_pages >= start_page + max_pages - 1) =>
        /\ stats.pages_processed = max_pages
        /\ Len(scanned) = max_pages
        /\ \A i \in 1..Len(scanned) : scanned[i].page_number = start_page + i - 1

-----------------------------------------------------------------------------
(* Claims about the resolver on chapter lists in discovery order *)

\* C23: the resolver agrees with the lower-bound reference on every chapter
\* list, sorted or not: in whatever order the TOC gave the chapters of
\* self.chapters, _find_chapter_section(p) returns the number of the chapter
\* with the greatest start_page <= p, and not just the last chapter of the
\* list with start_page <= p.
C23_ResolveAnyOrder ==
    (pc = "merged" /\ query # None) =>
        loc[1].chapter_num \in ReferenceChapter(chapters, query[1])

-----------------------------------------------------------------------------
(* Claims about the lines of the table of contents *)

\* a step of _extract_chapters reads a line
LineRead == pc = "extract" /\ tocLines' = tocLines + 1

\* the chapters and the sections of a chapter list, counted together
RECURSIVE Records(_)
Records(chs) ==
    IF chs = <<>> THEN 0 ELSE 1 + Len(Head(chs).sections) + Records(Tail(chs))

\* the chapters of a list without their sections
Headings(chs) == [i \in 1..Len(chs) |-> [chs[i] EXCEPT !.sections = <<>>]]

\* the line starts with a number of one to three digits that the section
\* pattern matches
NumberedLine(line) == section_match(line) # None

\* what reading the line does to the chapter list
LineEffect(line) ==
    \A heading \in {chapter_match(line)} :
        /\ heading # None =>
               /\ ~NumberedLine(line)
               /\ Len(chapters') = Len(chapters) + 1
               /\ SubSeq(chapters', 1, Len(chapters)) = chapters
               /\ chapters'[Len(chapters')].sections = <<>>
        /\ (NumberedLine(line) /\ int(section_match(line)[1].g1) <= 100) =>
               chapters' = chapters
        /\ (NumberedLine(line) /\ int(section_match(line)[1].g1) > 100) =>
               /\ Headings(chapters') = Headings(chapters)
               /\ \A i \in 1..Len(chapters) :
                      \/ chapters'[i].sections = chapters[i].sections
                      \/ /\ Len(chapters'[i].sections) = Len(chapters[i].sections) + 1
                         /\ chapters'[i].sections[Len(chapters'[i].sections)].number
                                = section_match(line)[1].g1
        /\ (heading = None /\ ~NumberedLine(line)) => chapters' = chapters

\* C24: every line of the table of contents gives at most one structure
\* record: a line the chapter pattern matches gives a chapter and is never
\* taken as a section as well; a numbered line whose number is 100 or less
\* gives nothing; a numbered line above 100 gives a section candidate; a line
\* neither pattern matches is passed over; and a table of contents without a
\* matching line leaves the chapter list empty.
C24_OneRecordPerLine ==
    /\ [](tocLines = 0 => chapters = <<>>)
    /\ [][LineRead =>
            /\ Records(chapters') \in {Records(chapters), Records(chapters) + 1}
            /\ \A line \in TocLines :
                   chapters' = extract_line(chapters, line) => LineEffect(line)
         ]_vars

\* three lines were read: one gave a chapter, one the section 186 under it,
\* and one left no record
C24_Witness ==
    /\ tocLines = 3
    /\ Len(chapters) = 1
    /\ Len(chapters[1].sections) = 1
    /\ chapters[1].sections[1].number = <<"1","8","6">>

-----------------------------------------------------------------------------
(* Claims about the fields of a treatment record *)

\* the four text fields of a treatment record
TreatmentFields == {"first_line", "second_line", "dosage", "duration"}

\* the field the marker of each treatment pattern stands for: first-line,
\* second-line, alternative, drug, dose, duration
FieldOfMarker ==
    << "first_line", "second_line", "second_line", "first_line", "dosage", "duration" >>

\* C25: every Treatment record of _extract_treatments_from_page has exactly
\* one of first_line, second_line, dosage and duration non-empty, the one of
\* the marker that matched: first-line gives first_line, second-line and
\* alternative give second_line, dose gives dosage, duration gives duration
\* and any other marker (drug) gives first_line; its page_number is the page
\* that was scanned.
C25_FieldOfMarker ==
    [][PageRead =>
          \A page \in {ReadPage} : \A new \in {NewTreatments} :
              \A t \in 1..Len(new) :
                  /\ new[t].page_number = page.page_number
                  /\ Cardinality({f \in TreatmentFields : new[t][f] # <<>>}) = 1
                  /\ \E k \in 1..Len(treatment_patterns) :
                     \E groups \in {treatment_finditer(page.text, k, 1)} :
                     \E j \in 1..Len(groups) :
                         /\ AtCI(treatment_patterns[k], 1, treatment_markers[k].word)
                         /\ new[t][FieldOfMarker[k]] = strip(groups[j])
      ]_vars

\* a page gave a record with a dosage and one with a second_line, another
\* record has a first_line
C25_Witness ==
    \E a, b, c \in 1..Len(treatments) :
        /\ treatments[a].dosage # <<>>
        /\ treatments[b].second_line # <<>>
        /\ treatments[b].page_number = treatments[a].page_number
        /\ treatments[c].first_line # <<>>

-----------------------------------------------------------------------------
(* Claims about the order of the condition patterns *)

\* the patterns of condition_patterns that match a line, by their position
MatchingPatterns(line) == {k \in 1..ConditionPatterns : condition_match(line, k) # None}

\* the name a line gives when the first pattern that matches decides alone:
\* the candidate of that pattern if it is valid, and nothing otherwise
FirstPatternNames(line) ==
    LET candidate(k) == strip(condition_match(line, k)[1].name)
        decided(name) == IF _is_valid_medical_condition(name) THEN <<name>> ELSE <<>>
    IN  IF ~AcceptedLine(line) \/ MatchingPatterns(line) = {} THEN <<>>
        ELSE decided(candidate(Least(MatchingPatterns(line))))

RECURSIVE FirstPatternPage(_, _)
FirstPatternPage(lines, i) ==
    IF i > Len(lines) THEN <<>>
    ELSE FirstPatternNames(strip(lines[i])) \o FirstPatternPage(lines, i + 1)

\* C26: the first matching pattern wins on every line:
\* _extract_conditions_from_page emits at most one condition for a line, the
\* candidate of the first pattern of condition_patterns that matches the
\* line; a later pattern is never used for a line an earlier pattern
\* matched, not even when the candidate of the earlier pattern fails the
\* validation.
C26_FirstPatternWins ==
    [][PageRead =>
          \A page \in {ReadPage} : \A new \in {NewConditions} :
              [c \in 1..Len(new) |-> new[c].name] = FirstPatternPage(split(page.text), 1)
      ]_vars

-----------------------------------------------------------------------------
(* Claims about the chapter a section is put under *)

\* the chapters parsed so far that start on or before a page, by position
StartedBy(page) == {i \in 1..Len(chapters) : chapters[i].start_page <= page}

\* the chapters parsed so far whose section list grows in the step
Gaining == {i \in 1..Len(chapters) : chapters'[i].sections # chapters[i].sections}

\* the section lists of all chapters, one after the other
RECURSIVE AllSections(_)
AllSections(chs) ==
    IF chs = <<>> THEN <<>> ELSE Head(chs).sections \o AllSections(Tail(chs))

\* the step keeps every chapter parsed so far, in its place, with the
\* sections it had, in their order
NothingMoved ==
    /\ Len(chapters') >= Len(chapters)
    /\ Headings(SubSeq(chapters', 1, Len(chapters))) = Headings(chapters)
    /\ \A i \in 1..Len(chapters) :
           /\ Len(chapters'[i].sections) >= Len(chapters[i].sections)
           /\ SubSeq(chapters'[i].sections, 1, Len(chapters[i].sections))
                  = chapters[i].sections

\* what reading an accepted section line does: the section is appended to the
\* first chapter parsed so far that starts on or before its page and to no
\* other, and it is dropped when there is no such chapter
SectionPlaced(line) ==
    \A section \in {[number |-> section_match(line)[1].g1,
                     title  |-> strip(section_match(line)[1].g2),
                     page   |-> int(section_match(line)[1].g3)]} :
        /\ Len(chapters') = Len(chapters)
        /\ StartedBy(section.page) = {} => chapters' = chapters
        /\ StartedBy(section.page) # {} =>
               /\ Gaining = {Least(StartedBy(section.page))}
               /\ \A i \in Gaining :
                      chapters'[i].sections = Append(chapters[i].sections, section)

\* C28: while _extract_chapters reads the table of contents, an accepted
\* section is appended to at most one chapter, the first one in the order
\* parsed so far whose start_page is not after the page of the section; a
\* section no chapter parsed so far can take is dropped, and no later line
\* brings it back; the sections a chapter has are never moved or removed when
\* further lines are read.
C28_FirstChapterInParseOrder ==
    [][LineRead =>
          /\ NothingMoved
          /\ Cardinality(Gaining) <= 1
          /\ Len(AllSections(chapters')) <= Len(AllSections(chapters)) + 1
          /\ \A line \in TocLines :
                 /\ chapters' = extract_line(chapters, line)
                 /\ NumberedLine(line)
                 /\ int(section_match(line)[1].g1) > SectionThreshold
                 => SectionPlaced(line)
          /\ \A line \in TocLines :
                 /\ chapters' = extract_line(chapters, line)
                 /\ ~NumberedLine(line)
                 => AllSections(chapters') = AllSections(chapters)
      ]_vars

\* two chapters were parsed, both start on or before the page of a section
\* read after them, and the section is under the first of them
C28_Witness ==
    /\ tocLines = 3
    /\ Len(chapters) = 2
    /\ Len(chapters[1].sections) = 1
    /\ chapters[2].start_page <= chapters[1].sections[1].page
    /\ chapters[2].sections = <<>>

-----------------------------------------------------------------------------
(* Claims about the rows of search_index *)

\* the records of a kind handed to _store_medical_data so far, in their order
Given(kind) ==
    LET of(given) == [k \in 1..Len(given) |-> given[k].record]
    IN  of(SelectSeq(st_given, LAMBDA g : g.kind = kind))

\* the rows of search_index of a content_type, in the order written
Indexed(content_type) ==
    SelectSeq(db_search_index, LAMBDA r : r.content_type = content_type)

\* every call so far has ended and none of them met a storage error
StoredWithoutErrors == st_pc = "idle" /\ st_log = <<>>

\* C29: after _store_medical_data has completed without storage errors,
\* search_index holds exactly one 'condition' row for every condition record
\* handed over, records of a name already stored included, while conditions
\* holds one row for each name; and it holds exactly one 'medication' row for
\* every medication record, whose content_id is the id of the medications row
\* written for that record.
C29_OneIndexRowPerRecord ==
    StoredWithoutErrors =>
        /\ Len(Indexed("condition")) = Len(Given("condition"))
        /\ \A k \in 1..Len(Given("condition")) :
               /\ Indexed("condition")[k].title = Given("condition")[k].name
               /\ Cardinality({i \in 1..Len(db_conditions) :
                                  db_conditions[i].name = Given("condition")[k].name}) = 1
        /\ Len(db_conditions)
               = Cardinality({Given("condition")[k].name : k \in 1..Len(Given("condition"))})
        /\ Len(Indexed("medication")) = Len(Given("medication"))
        /\ Len(db_medications) = Len(Given("medication"))
        /\ \A k \in 1..Len(Given("medication")) :
               /\ Indexed("medication")[k].title = Given("medication")[k].name
               /\ Indexed("medication")[k].content_id = db_medications[k].id
               /\ db_medications[k].generic_name = Given("medication")[k].name
               /\ db_medications[k].page_number = Given("medication")[k].page_number
               /\ \A j \in 1..Len(db_medications) :
                      db_medications[j].id = db_medications[k].id => j = k
        /\ Len(db_search_index) = Len(Given("condition")) + Len(Given("medication"))

\* a call has ended without errors that was given one name twice and a
\* medication: two 'condition' rows and one 'medication' row are in the
\* index, and conditions holds one row
C29_Witness ==
    /\ StoredWithoutErrors
    /\ Len(Given("condition")) = 2
    /\ Given("condition")[1].name = Given("condition")[2].name
    /\ Len(Given("medication")) = 1
    /\ Len(Indexed("condition")) = 2
    /\ Len(Indexed("medication")) = 1
    /\ Len(db_conditions) = 1

-----------------------------------------------------------------------------
(* Claims about successive runs of build_complete_database *)

\* a full run has ended: _merge_ocr_with_chapters and one call of
\* _create_content_chunks
FullRunDone == bd_pc = "chunked" /\ chunk_runs = 1

\* the chunks of the condition rows from index k on
RECURSIVE ChunksOfConditions(_, _)
ChunksOfConditions(rows, k) ==
    IF k > Len(rows) THEN <<>>
    ELSE chunks_of_condition(chapters, rows[k], 1) \o ChunksOfConditions(rows, k + 1)

\* the rows one run writes to empty tables from the rows of the OCR database
OneRunChunks ==
    LET cs == [k \in 1..Len(ocr_conditions) |->
                  merge_condition(chapters, ocr_conditions[k], k)]
        ms == [k \in 1..Len(ocr_medications) |->
                  merge_medication(chapters, ocr_medications[k], k)]
        chunks == ChunksOfConditions(cs, 1)
                      \o [k \in 1..Len(ms) |-> chunk_of_medication(chapters, ms[k])]
    IN  [c \in 1..Len(chunks) |-> [id |-> c] @@ chunks[c]]

\* a table of chunks with the embedding column cleared
WithoutEmbedding(table) ==
    [c \in 1..Len(table) |-> [table[c] EXCEPT !.embedding = None]]

\* the first call of _create_content_chunks on the tables of a run starts
StartsChunking == chunk_runs = 0 /\ chunk_runs' = 1

\* C30: successive full runs of build_complete_database over the same
\* inputs rebuild from scratch. The merge step has dropped and created the
\* tables before the first chunk of a run is written, so chunk creation starts
\* on an empty content_chunks and an empty embeddings table; after any number
\* of full runs content_chunks holds exactly the rows one run writes, every
\* (chunk_type, source_id) pair once, as many as each earlier run left, and the
\* only embeddings are those made for these rows.
C30_RebuildFromScratch ==
    /\ [](FullRunDone =>
            /\ WithoutEmbedding(db_content_chunks) = OneRunChunks
            /\ \A pair \in PairsOfOneRun : Cardinality(RowsOfPair(pair)) = 1
            /\ Len(db_content_chunks) = Cardinality(PairsOfOneRun)
            /\ \A k \in 1..Len(bd_left) :
                   bd_left[k].content_chunks = Len(db_content_chunks)
            /\ EmbeddedOnce([content_chunks |-> db_content_chunks,
                             embeddings     |-> db_embeddings]))
    /\ [][StartsChunking =>
            /\ bd_pc = "merged"
            /\ db_content_chunks = <<>>
            /\ db_embeddings = <<>>
         ]_vars

\* a second full run has ended on a database in which the first run and
\* generate_all_embeddings had left rows: the rows of the second run are
\* there, none of them with an embedding
C30_Witness ==
    /\ FullRunDone
    /\ Len(bd_left) = 1
    /\ bd_left[1].content_chunks >= 2
    /\ bd_left[1].embeddings = bd_left[1].content_chunks
    /\ Len(db_content_chunks) = bd_left[1].content_chunks
    /\ db_embeddings = <<>>

====
